---- MODULE Spec2Model ----
(***************************************************************************)
(* A model of the time-base reconciliation and resampling core of          *)
(* bdbc_nwb_packager: index alignment (alignment.py), the resamplers       *)
(* (tracking/alignment.py) and the timebase validation (timebases.py,      *)
(* packaging.py).  Arrays are sequences; the code's 0-based index k is     *)
(* position k + 1 of the sequence (At).                                    *)
(***************************************************************************)
EXTENDS Integers, Sequences, FiniteSets, TLC

\* ---------------------------------------------------------------- bounds
\* number of raw DAQ samples of the session (daq_t.size)
NDaq == 4
\* largest number of pulses of a pulse timebase
MaxPulses == 3
\* largest number of rows of a trial table
MaxTrials == 2
\* largest number of raw samples of a resampled signal (size, values.size)
MaxSize == 5
\* largest number of pulses handed to the resamplers
MaxResPulses == 4
\* largest max_skips handed to upsample
MaxSkips == 2
\* the floating-point formats, scaled down: significand bits of float64 and
\* of float32, and the number of fraction bits of the smallest positive number
P64 == 6
P32 == 3
FracBits == 3
\* largest number of entries of a dataset of the raw-data file
MaxEntries == 2
\* latest time of a sample or a pulse handed to timebase_to_daqindices
MaxTime == 4
\* largest number of frames (rows) of a pose-estimation table
MaxFrames == 2
MaxSessions == 2
MaxRows == 3
MaxTolerance == 2
MaxCalls == 4
MaxSamples == 5

VARIABLES
    \* ---- alignment.py: align_trials_to_pulses / daqindex_to_pulseindex
    daq_t,          \* raw timebase, one time per DAQ sample
    pulse_t,        \* target timebase, one time per pulse
    trials,         \* the trial table: column name -> column values
    columnsettings, \* ordered dict: sequence of [name, typ]
    al_pc,          \* where align_trials_to_pulses stands
    al_err,         \* the exception raised and its message, "" when none
    col,            \* position in columnsettings.items()
    daqidxx,        \* argument of the running daqindex_to_pulseindex call
    i,              \* loop index of daqindex_to_pulseindex
    offset,         \* scan offset of daqindex_to_pulseindex
    out,            \* output array of daqindex_to_pulseindex
    aligned,        \* dict of converted columns
    result,         \* the returned frame: kept row labels and their columns
    \* ---- tracking/alignment.py: upsample / downsample
    values,         \* upsample: one value per pulse, NaN where missing
    size,           \* upsample: length of the raw-rate output
    pulseidxx,      \* raw-sample index of every pulse
    max_skips,      \* upsample: the longest run of NaN pulses that is bridged
    rs_pc,          \* where the resampling stands
    up_offset,      \* upsample: offset
    up_iter,        \* history: the passes of upsample's while loop so far
    up_out,         \* upsample: out
    spans,          \* history: the pulse pairs <<a, b>> upsample interpolated
    ds_values,      \* downsample: the raw-rate signal
    reduce,         \* downsample: the name of the reduction
    interval,       \* downsample: interval
    down_out,       \* downsample: out
    \* ---- timebases.py / packaging.py: load_timebases_impl
    rawfile,        \* the datasets of the raw-data HDF5 file that are read
    triggers,       \* PulseTriggers: videos, B, V
    timebases,      \* Timebases: raw, videos, B, V
    num_samples,    \* behavior_raw/data.shape[1], once read
    num_frames,     \* image/Ib.shape[0] and image/Iv.shape[0], once read
    behavior_videos,\* paths.has_behavior_videos(), once asked
    tb_pc,          \* where load_timebases_impl stands
    instances,      \* every PulseTriggers / Timebases instance constructed so
                    \* far, by identity: instance n is instances[n]
    refs,           \* the instances the variables triggers and timebases name
    \* ---- alignment.py: timebase_to_daqindices (with daq_t, pulse_t, i,
    \*      offset, out and al_pc above)
    tol,            \* largest difference of a sample taken as the pulse's
    \* ---- tracking/validation.py: validate_keypoint
    dlcdata,        \* the x, y and likelihood columns of the keypoint
    alpha,          \* percentile of the outlier filter, NaN when disabled
    threshold,      \* smallest likelihood taken as valid
    kp_x,           \* the array x being built
    kp_y,           \* the array y being built
    kp_pc,          \* where validate_keypoint stands
    \* ---- batch.py: run_batch
    sessions,       \* what iterate_sessions yields, in order
    sess,           \* position of the for loop in sessions
    sessions_processed,       \* list of sessions (by position)
    sessions_without_rawdata, \* list of sessions (by position)
    sessions_with_problem,    \* list of <<session, exception>>
    batch_pc,       \* where run_batch stands
    batch_err,      \* the exception run_batch raised, "" when none
    \* ---- packaging.py: process
    opts,           \* the keyword arguments of process
    paths,          \* what setup_path_settings found, None without raw data
    env,            \* the PackagingEnvironment
    pr_trace,       \* history: what process has read, created, added and
                    \* written so far, in order
    pr_downsample,  \* argument downsample of the running add_tracking_impl
    pr_pc,          \* where process stands
    pr_err,         \* the exception process raised
    pr_ret,         \* what process returned
    \* ---- tracking/validation.py: prepare_table_results, and the series of
    \*      tracking/dlc.py: iterate_pose_estimations
    pt_args,        \* the sizes of what is passed in, the tolerance, downsample
    pt_ranges,      \* what validate_index_ranges returned
    pt_prepared,    \* the rows of t, trigs and tab that prepare_table_results
                    \* returned
    pt_series,      \* the rows of data, timestamps and confidence of a
                    \* PoseEstimationSeries
    pt_pc,          \* where the view's pass of iterate_pose_estimations stands
    pt_err,         \* the exception raised
    \* ---- logging/__init__.py
    APP_LOGGER,         \* the module's logger, or None
    LOGGING_FORMATTER,  \* the module's formatter, or None
    FILE_OUTPUT,        \* the module's file handler, or None
    FILE_OUTPUT_PATH,   \* the path of the log file, or None
    lg_handlers,    \* the handlers of logging.getLogger('bdbc')
    lg_calls,       \* the calls made so far; datetime.now() of the next one
    lg_call,        \* the last call: who made it and whether it asked for
                    \* file output
    lg_ret,         \* what the last get_logger returned
    lg_err,         \* the exception the last call raised
    \* ---- trials/cued_lever_pull.py: extract_trials
    tx_daq,         \* the Task_state and Over_thr columns of daq
    tx_task_state,  \* the blocks of the task state
    tx_resps,       \* the onsets of the supra-threshold lever responses
    tx_trials,      \* the trials appended so far
    tx_stateoffset,
    tx_respoffset,
    tx_pc,          \* where extract_trials stands
    tx_err          \* the exception raised

alignVars == <<daq_t, pulse_t, trials, columnsettings, al_pc, al_err, col,
               daqidxx, i, offset, out, aligned, result>>

resampleVars == <<values, size, pulseidxx, max_skips, rs_pc, up_offset, up_iter, up_out,
                  spans, ds_values, reduce, interval, down_out>>

timebaseVars == <<rawfile, triggers, timebases, num_samples, num_frames,
                  behavior_videos, tb_pc, instances, refs>>

daqIndexVars == <<tol>>

keypointVars == <<dlcdata, alpha, threshold, kp_x, kp_y, kp_pc>>

batchVars == <<sessions, sess, sessions_processed, sessions_without_rawdata,
               sessions_with_problem, batch_pc, batch_err>>

processVars == <<opts, paths, env, pr_trace, pr_downsample, pr_pc, pr_err,
                 pr_ret>>

poseVars == <<pt_args, pt_ranges, pt_prepared, pt_series, pt_pc, pt_err>>

loggingVars == <<APP_LOGGER, LOGGING_FORMATTER, FILE_OUTPUT, FILE_OUTPUT_PATH,
                 lg_handlers, lg_calls, lg_call, lg_ret, lg_err>>

extractVars == <<tx_daq, tx_task_state, tx_resps, tx_trials, tx_stateoffset,
                 tx_respoffset, tx_pc, tx_err>>

vars == <<alignVars, resampleVars, timebaseVars, daqIndexVars, keypointVars,
          batchVars, processVars, poseVars, loggingVars, extractVars>>

\* what each component leaves alone
nonAlignVars == <<resampleVars, timebaseVars, daqIndexVars, keypointVars,
    batchVars, processVars, poseVars, loggingVars, extractVars>>
nonResampleVars == <<alignVars, timebaseVars, daqIndexVars, keypointVars,
    batchVars, processVars, poseVars, loggingVars, extractVars>>
nonTimebaseVars == <<alignVars, resampleVars, daqIndexVars, keypointVars,
    batchVars, processVars, poseVars, loggingVars, extractVars>>
nonKeypointVars == <<alignVars, resampleVars, timebaseVars, daqIndexVars,
    batchVars, processVars, poseVars, loggingVars, extractVars>>
nonBatchVars == <<alignVars, resampleVars, timebaseVars, daqIndexVars,
    keypointVars, processVars, poseVars, loggingVars, extractVars>>
nonProcessVars == <<alignVars, resampleVars, timebaseVars, daqIndexVars,
    keypointVars, batchVars, poseVars, loggingVars, extractVars>>
nonPoseVars == <<alignVars, resampleVars, timebaseVars, daqIndexVars,
    keypointVars, batchVars, processVars, loggingVars, extractVars>>
nonLoggingVars == <<alignVars, resampleVars, timebaseVars, daqIndexVars,
    keypointVars, batchVars, processVars, poseVars, extractVars>>
nonExtractVars == <<alignVars, resampleVars, timebaseVars, daqIndexVars,
    keypointVars, batchVars, processVars, poseVars, loggingVars>>

\* ------------------------------------------------------------ helpers
\* arr[k] of the code (0-based)
At(arr, k) == arr[k + 1]

Min(a, b) == IF a <= b THEN a ELSE b
Max(a, b) == IF a >= b THEN a ELSE b

MinOf(S) == CHOOSE x \in S : \A y \in S : x <= y

RECURSIVE SetToAscSeq(_)
SetToAscSeq(S) ==
    IF S = {} THEN <<>>
    ELSE LET m == MinOf(S) IN <<m>> \o SetToAscSeq(S \ {m})

\* the strictly ascending sequences over S with at most n entries
AscSeqs(S, n) == { SetToAscSeq(T) : T \in { U \in SUBSET S : Cardinality(U) <= n } }

\* ascending apart from -1 holes (contract of daqindex_to_pulseindex)
AscendingButHoles(s) ==
    \A a, b \in 1..Len(s) : a < b => (s[a] = -1 \/ s[b] = -1 \/ s[a] <= s[b])

\* the 'time' columns of length n: DAQ indices, or -1 where the value is missing
TimeColumns(n) == { s \in [1..n -> (-1)..(NDaq - 1)] : AscendingButHoles(s) }

\* ======================================================================
\* alignment.py
\* ======================================================================

\* the while loop of daqindex_to_pulseindex (lines 72-73)
RECURSIVE AdvanceOffset(_, _, _)
AdvanceOffset(off, daqtrig, pt) ==
    IF (off + 1) < Len(pt) /\ At(pt, off + 1) < daqtrig
    THEN AdvanceOffset(off + 1, daqtrig, pt)
    ELSE off

\* out = np.empty(n); out.fill(-2)
FilledInt(n, v) == [k \in 1..n |-> v]

ColNames == { columnsettings[k].name : k \in 1..Len(columnsettings) }

\* exceptions: the class and str() of the instance
NoError == [exc |-> "", msg |-> ""]
ValueError(message) == [exc |-> "ValueError", msg |-> message]
\* str(KeyError(key)) is repr(key)
KeyError(key) == [exc |-> "KeyError", msg |-> key]

NRows == Len(trials["start"])

\* the settings the function accepts (two 'time' columns around a 'value'
\* column), and settings it rejects
GoodSettings ==
    { << [name |-> "start", typ |-> "time"], [name |-> "val", typ |-> "value"],
         [name |-> "end", typ |-> "time"] >> }

BadSettings ==
    { << [name |-> "start", typ |-> "time"] >>,
      << [name |-> "end", typ |-> "time"], [name |-> "val", typ |-> "value"] >>,
      << [name |-> "start", typ |-> "time"], [name |-> "end", typ |-> "index"] >> }

\* the tables with n rows: 'start' and 'end' hold DAQ indices, 'val' a value
\* (trials follow one another: start, end, next start, ... ascend apart from holes)
Interleave(s, e) ==
    [k \in 1..(2 * Len(s)) |-> IF k % 2 = 1 THEN s[(k + 1) \div 2] ELSE e[k \div 2]]

TrialColumns(n) ==
    { se \in TimeColumns(n) \X TimeColumns(n) : AscendingButHoles(Interleave(se[1], se[2])) }

Tables(n) ==
    { [c \in {"start", "end", "val"} |->
          IF c = "start" THEN se[1] ELSE IF c = "end" THEN se[2]
          ELSE [k \in 1..n |-> 10 + k]]
      : se \in TrialColumns(n) }

\* the tables of one row that lack a column
TablesWithout(c) ==
    { [d \in {"start", "end", "val"} \ {c} |-> t[d]] : t \in Tables(1) }

\* the trial aligner is not running
AlignIdle ==
    /\ daq_t = <<>>
    /\ pulse_t = <<>>
    /\ trials = <<>>
    /\ columnsettings = <<>>
    /\ al_pc = "idle"
    /\ al_err = NoError
    /\ col = 0
    /\ daqidxx = <<>>
    /\ i = 0
    /\ offset = 0
    /\ out = <<>>
    /\ aligned = <<>>
    /\ result = [index |-> <<>>, data |-> <<>>]
    /\ tol = 0

\* the resamplers are not running
ResampleIdle ==
    /\ values = <<>>
    /\ size = 0
    /\ pulseidxx = <<>>
    /\ max_skips = 0
    /\ rs_pc = "idle"
    /\ up_offset = 0
    /\ up_iter = 0
    /\ up_out = <<>>
    /\ spans = <<>>
    /\ ds_values = <<>>
    /\ reduce = "nanmean"
    /\ interval = 0
    /\ down_out = <<>>

\* validate_keypoint is not running
KeypointIdle ==
    /\ dlcdata = <<>>
    /\ alpha = 0
    /\ threshold = 0
    /\ kp_x = <<>>
    /\ kp_y = <<>>
    /\ kp_pc = "idle"

\* the logging module as imported, with no call made
LoggingIdle ==
    /\ APP_LOGGER = "None"
    /\ LOGGING_FORMATTER = "None"
    /\ FILE_OUTPUT = [kind |-> "None", id |-> 0]
    /\ FILE_OUTPUT_PATH = [name |-> "None", stamp |-> 0]
    /\ lg_handlers = {}
    /\ lg_calls = 0
    /\ lg_call = [op |-> "idle", file_output |-> FALSE]
    /\ lg_ret = "None"
    /\ lg_err = [exc |-> "", msg |-> ""]

\* extract_trials is not running
ExtractIdle ==
    /\ tx_daq = <<>>
    /\ tx_task_state = <<>>
    /\ tx_resps = <<>>
    /\ tx_trials = <<>>
    /\ tx_stateoffset = 0
    /\ tx_respoffset = 0
    /\ tx_pc = "idle"
    /\ tx_err = [exc |-> "", msg |-> ""]

\* iterate_pose_estimations is not running
PoseIdle ==
    /\ pt_args = <<>>
    /\ pt_ranges = <<>>
    /\ pt_prepared = <<>>
    /\ pt_series = <<>>
    /\ pt_pc = "idle"
    /\ pt_err = [exc |-> "", msg |-> ""]

\* process is not running
ProcessIdle ==
    /\ opts = <<>>
    /\ paths = <<>>
    /\ env = <<>>
    /\ pr_trace = <<>>
    /\ pr_downsample = FALSE
    /\ pr_pc = "idle"
    /\ pr_err = [exc |-> "", msg |-> ""]
    /\ pr_ret = ""

\* run_batch is not running
BatchIdle ==
    /\ sessions = <<>>
    /\ sess = 0
    /\ sessions_processed = <<>>
    /\ sessions_without_rawdata = <<>>
    /\ sessions_with_problem = <<>>
    /\ batch_pc = "idle"
    /\ batch_err = ""

\* load_timebases_impl is not running
TimebaseIdle ==
    /\ rawfile = <<>>
    /\ triggers = <<>>
    /\ timebases = <<>>
    /\ num_samples = 0
    /\ num_frames = <<>>
    /\ behavior_videos = FALSE
    /\ tb_pc = "idle"
    /\ instances = <<>>
    /\ refs = <<>>

AlignInit ==
    /\ BatchIdle
    /\ ProcessIdle
    /\ PoseIdle
    /\ LoggingIdle
    /\ ExtractIdle
    /\ ResampleIdle
    /\ TimebaseIdle
    /\ KeypointIdle
    /\ tol = 0
    /\ daq_t = [k \in 1..NDaq |-> k - 1]
    /\ \E p \in AscSeqs(0..(NDaq - 1), MaxPulses) :
           pulse_t = [k \in 1..Len(p) |-> At(daq_t, p[k])]
    /\ \/ /\ columnsettings \in GoodSettings
          /\ \E n \in 0..MaxTrials : trials \in Tables(n)
       \/ /\ columnsettings \in BadSettings
          /\ trials \in Tables(1)
       \/ /\ columnsettings \in GoodSettings
          /\ trials \in TablesWithout("start") \cup TablesWithout("end")
    /\ al_pc = "begin"
    /\ al_err = NoError
    /\ col = 0
    /\ daqidxx = <<>>
    /\ i = 0
    /\ offset = 0
    /\ out = <<>>
    /\ aligned = <<>>
    /\ result = [index |-> <<>>, data |-> <<>>]

\* lines 90-92: the required columns
AlignCheckRequired ==
    /\ al_pc = "begin"
    /\ IF "start" \notin ColNames
       THEN al_pc' = "raised" /\ al_err' = ValueError("trials do not contain the 'start' column")
                              /\ col' = col
       ELSE IF "end" \notin ColNames
       THEN al_pc' = "raised" /\ al_err' = ValueError("trials do not contain the 'end' column")
                              /\ col' = col
       ELSE al_pc' = "columns" /\ al_err' = al_err /\ col' = 1
    /\ UNCHANGED <<nonAlignVars, daq_t, pulse_t, trials, columnsettings, daqidxx, i, offset,
                   out, aligned, result>>

\* lines 95-96: a 'time' column starts a daqindex_to_pulseindex call (lines 62-65)
AlignTimeColumn ==
    /\ al_pc = "columns"
    /\ col <= Len(columnsettings)
    /\ columnsettings[col].typ = "time"
    /\ columnsettings[col].name \in DOMAIN trials
    /\ daqidxx' = trials[columnsettings[col].name]
    /\ out' = FilledInt(Len(trials[columnsettings[col].name]), -2)
    /\ offset' = 0
    /\ i' = 0
    /\ al_pc' = "d2p"
    /\ UNCHANGED <<nonAlignVars, daq_t, pulse_t, trials, columnsettings, al_err, col, aligned, result>>

\* lines 97-98: a 'value' column passes through
AlignValueColumn ==
    /\ al_pc = "columns"
    /\ col <= Len(columnsettings)
    /\ columnsettings[col].typ = "value"
    /\ columnsettings[col].name \in DOMAIN trials
    /\ aligned' = (columnsettings[col].name :> trials[columnsettings[col].name]) @@ aligned
    /\ col' = col + 1
    /\ UNCHANGED <<nonAlignVars, daq_t, pulse_t, trials, columnsettings, al_pc, al_err, daqidxx,
                   i, offset, out, result>>

\* lines 96 and 98: trials[col] of a column the table does not hold
AlignKeyError ==
    /\ al_pc = "columns"
    /\ col <= Len(columnsettings)
    /\ columnsettings[col].typ \in {"time", "value"}
    /\ columnsettings[col].name \notin DOMAIN trials
    /\ al_pc' = "raised"
    /\ al_err' = KeyError(columnsettings[col].name)
    /\ UNCHANGED <<nonAlignVars, daq_t, pulse_t, trials, columnsettings, col, daqidxx, i, offset,
                   out, aligned, result>>

\* lines 99-100
AlignBadType ==
    /\ al_pc = "columns"
    /\ col <= Len(columnsettings)
    /\ columnsettings[col].typ \notin {"time", "value"}
    /\ al_pc' = "raised"
    /\ al_err' = ValueError("unexpected column type")
    /\ UNCHANGED <<nonAlignVars, daq_t, pulse_t, trials, columnsettings, col, daqidxx, i, offset,
                   out, aligned, result>>

\* lines 67-69: the missing sentinel
D2PMissing ==
    /\ al_pc = "d2p"
    /\ i < Len(daqidxx)
    /\ At(daqidxx, i) = -1
    /\ out' = [out EXCEPT ![i + 1] = -1]
    /\ i' = i + 1
    /\ UNCHANGED <<nonAlignVars, daq_t, pulse_t, trials, columnsettings, al_pc, al_err, col,
                   daqidxx, offset, aligned, result>>

\* the offset after the while loop for the entry at i
ScannedOffset == AdvanceOffset(offset, At(daq_t, At(daqidxx, i)), pulse_t)

\* lines 74-76: "before the beginning of the pulses"
D2PBefore ==
    /\ al_pc = "d2p"
    /\ i < Len(daqidxx)
    /\ At(daqidxx, i) # -1
    /\ ScannedOffset = 0
    /\ offset' = ScannedOffset
    /\ i' = i + 1
    /\ UNCHANGED <<nonAlignVars, daq_t, pulse_t, trials, columnsettings, al_pc, al_err, col,
                   daqidxx, out, aligned, result>>

\* lines 77-79: "at the end of the pulses": break
D2PAtEnd ==
    /\ al_pc = "d2p"
    /\ i < Len(daqidxx)
    /\ At(daqidxx, i) # -1
    /\ ScannedOffset # 0
    /\ ScannedOffset = Len(pulse_t) - 1
    /\ offset' = ScannedOffset
    /\ al_pc' = "d2p_return"
    /\ UNCHANGED <<nonAlignVars, daq_t, pulse_t, trials, columnsettings, al_err, col, daqidxx, i,
                   out, aligned, result>>

\* line 80
D2PAssign ==
    /\ al_pc = "d2p"
    /\ i < Len(daqidxx)
    /\ At(daqidxx, i) # -1
    /\ ScannedOffset # 0
    /\ ScannedOffset # Len(pulse_t) - 1
    /\ offset' = ScannedOffset
    /\ out' = [out EXCEPT ![i + 1] = ScannedOffset]
    /\ i' = i + 1
    /\ UNCHANGED <<nonAlignVars, daq_t, pulse_t, trials, columnsettings, al_pc, al_err, col,
                   daqidxx, aligned, result>>

\* line 81, and line 96: the converted column is stored
D2PReturn ==
    /\ \/ al_pc = "d2p" /\ i = Len(daqidxx)
       \/ al_pc = "d2p_return"
    /\ aligned' = (columnsettings[col].name :> out) @@ aligned
    /\ col' = col + 1
    /\ al_pc' = "columns"
    /\ UNCHANGED <<nonAlignVars, daq_t, pulse_t, trials, columnsettings, al_err, daqidxx, i,
                   offset, out, result>>

\* line 102: the row mask
RowMaskBoth(startv, endv) == ~(startv = -2 /\ endv = -2)
RowMask(startv, endv) == ~(startv = -2 \/ endv = -2)

\* aligned.loc[mask]: the kept row labels (0-based) and the kept entries
KeptRows(frame) ==
    SelectSeq([k \in 1..Len(frame["start"]) |-> k - 1],
              LAMBDA r : RowMask(At(frame["start"], r), At(frame["end"], r)))

Loc(frame) ==
    LET kept == KeptRows(frame)
    IN  [index |-> kept,
         data  |-> [c \in DOMAIN frame |-> [k \in 1..Len(kept) |-> At(frame[c], kept[k])]]]

\* lines 101-102
AlignFilter ==
    /\ al_pc = "columns"
    /\ col > Len(columnsettings)
    /\ result' = Loc(aligned)
    /\ al_pc' = "done"
    /\ UNCHANGED <<nonAlignVars, daq_t, pulse_t, trials, columnsettings, al_err, col, daqidxx, i,
                   offset, out, aligned>>

AlignNext ==
    \/ AlignCheckRequired
    \/ AlignTimeColumn
    \/ AlignValueColumn
    \/ AlignKeyError
    \/ AlignBadType
    \/ D2PMissing
    \/ D2PBefore
    \/ D2PAtEnd
    \/ D2PAssign
    \/ D2PReturn
    \/ AlignFilter

SpecAlign == AlignInit /\ [][AlignNext]_vars

\* ---------------------------------------------------------- properties
\* the time of the DAQ index held by row r (1-based) of column c
TrialTime(c, r) == At(daq_t, trials[c][r])

\* a DAQ time inside the period covered by the pulses
InsidePulsePeriod(t) ==
    /\ Len(pulse_t) >= 2
    /\ At(pulse_t, 0) <= t
    /\ t < At(pulse_t, Len(pulse_t) - 1)

\* k is the index of the pulse interval that contains t
IsContainingInterval(k, t) ==
    /\ 0 <= k
    /\ k + 1 < Len(pulse_t)
    /\ At(pulse_t, k) <= t
    /\ t < At(pulse_t, k + 1)

\* C1: every DAQ index whose time lies inside the period covered by the
\* pulses is converted to the index k of the pulse interval that contains it,
\* pulse_t[k] <= daq_t[idx] < pulse_t[k+1] (so DAQ index 5 with pulses at
\* 0, 10, ... yields 0).
C1_InsideYieldsContainingInterval ==
    \A c \in (DOMAIN aligned) \cap {"start", "end"} :
        \A r \in 1..Len(aligned[c]) :
            (trials[c][r] # -1 /\ InsidePulsePeriod(TrialTime(c, r)))
                => IsContainingInterval(aligned[c][r], TrialTime(c, r))

\* C2: the frame returned by align_trials_to_pulses holds exactly the
\* converted rows whose start and end both differ from -2, in their original
\* order and with their converted values; it never has more rows than the input.
C2_ExactlyInPeriodRowsKept ==
    al_pc = "done" =>
        /\ Len(result.index) <= NRows
        /\ \A k \in 1..Len(result.index) : result.index[k] \in 0..(NRows - 1)
        /\ \A k \in 1..(Len(result.index) - 1) : result.index[k] < result.index[k + 1]
        /\ \A r \in 0..(NRows - 1) :
               (\E k \in 1..Len(result.index) : result.index[k] = r)
                   <=> (At(aligned["start"], r) # -2 /\ At(aligned["end"], r) # -2)
        /\ DOMAIN result.data = DOMAIN aligned
        /\ \A c \in DOMAIN aligned :
               /\ Len(result.data[c]) = Len(result.index)
               /\ \A k \in 1..Len(result.index) :
                      result.data[c][k] = At(aligned[c], result.index[k])
        /\ \A k \in 1..Len(result.index) :
               result.data["start"][k] # -2 /\ result.data["end"][k] # -2

\* C2 witness: a table of which one row is kept and another, whose start is
\* in the period and whose end is not, is dropped
C2_Witness ==
    /\ al_pc = "done"
    /\ NRows = 2
    /\ Len(result.index) = 1
    /\ \E r \in 0..(NRows - 1) :
           At(aligned["start"], r) >= 0 /\ At(aligned["end"], r) = -2

\* ======================================================================
\* tracking/alignment.py (and its copy in alignment.py): upsample, downsample
\* ======================================================================
\* Floating-point numbers are integers counting units of 2^-FracBits; a format
\* keeps P significant bits and rounds to nearest, ties to even.  NaN is a
\* reserved number outside the range of the values.
NaN == -1000000

IsNaN(v) == v = NaN

Pow2(n) == 2 ^ n

\* 1.0
ONE == Pow2(FracBits)

Abs(x) == IF x < 0 THEN -x ELSE x

\* num / den rounded to the nearest integer, ties to the even one (den > 0)
RoundHalfEven(num, den) ==
    LET q == num \div den
        r == num % den
    IN  IF 2 * r < den THEN q
        ELSE IF 2 * r > den THEN q + 1
        ELSE IF q % 2 = 0 THEN q ELSE q + 1

\* the exponent e >= 0 of a / den in a format of P bits: a / den < 2^(P + e)
RECURSIVE ExponentOf(_, _, _, _)
ExponentOf(P, a, den, e) ==
    IF a < Pow2(P + e) * den THEN e ELSE ExponentOf(P, a, den, e + 1)

\* num / den rounded to P significant bits
FlRound(P, num, den) ==
    LET a == Abs(num)
        e == ExponentOf(P, a, den, 0)
        m == RoundHalfEven(a, den * Pow2(e))
    IN  IF num < 0 THEN -(m * Pow2(e)) ELSE m * Pow2(e)

\* float64 arithmetic
Sub64(x, y) == FlRound(P64, x - y, 1)
Add64(x, y) == FlRound(P64, x + y, 1)
Mul64(x, y) == FlRound(P64, x * y, ONE)
\* int / int, true division
IntDiv64(a, b) == FlRound(P64, a * ONE, b)

\* a store into a float32 array
Cast32(x) == IF IsNaN(x) THEN NaN ELSE FlRound(P32, x, 1)

\* float32 arithmetic of the reductions
Add32(x, y) == FlRound(P32, x + y, 1)
DivCount32(x, n) == FlRound(P32, x, n)

\* truncation, the usual slip in place of round()
PyFloor(x) == x \div ONE

\* round() of Python on a float: to the nearest integer, ties to even
PyRound(x) == RoundHalfEven(x, ONE)

\* arr[start:stop] for start, stop >= 0
Slice(arr, start, stop) ==
    LET lo == Min(start, Len(arr))
        hi == Min(stop, Len(arr))
    IN  IF lo >= hi THEN <<>> ELSE SubSeq(arr, lo + 1, hi)

\* arr[start:stop] = vals, for 0 <= start and stop <= arr.size
SliceAssign(arr, start, stop, vals) ==
    [k \in 1..Len(arr) |->
        IF start < k /\ k <= stop THEN Cast32(vals[k - start]) ELSE arr[k]]

FilledNaN(n) == [k \in 1..n |-> NaN]

\* _linear (lines 41-44); 0 / 0 is NaN
LinearOverSize(start, stop, vstart, vend) ==
    LET siz == stop - start
    IN  [k \in 1..siz |->
            Add64(Mul64(IntDiv64(k - 1, siz), Sub64(vend, vstart)), vstart)]
Linear(start, stop, vstart, vend) ==
    LET siz == stop - start
    IN  [k \in 1..siz |->
            IF siz - 1 = 0 THEN NaN
            ELSE Add64(Mul64(IntDiv64(k - 1, siz - 1), Sub64(vend, vstart)), vstart)]

offsetceil == Len(pulseidxx) - 1

\* range(1, max_skips + 1)
SkipRangeShort(ms) == 1..(ms - 1)
SkipRange(ms) == 1..ms

\* the skips of the for loop (lines 58-59) at which the if holds
BridgeSkips ==
    { skip \in SkipRange(max_skips) :
          (up_offset + skip) < offsetceil /\ ~IsNaN(At(values, up_offset + skip + 1)) }

\* the float64 values of the tables handed to upsample
ValueSet == {NaN, 1, 9, 96}

ResampleInputs ==
    /\ size \in 1..MaxSize
    /\ pulseidxx \in AscSeqs(0..(size - 1), MaxResPulses)
    /\ values \in [1..Len(pulseidxx) -> ValueSet]
    /\ max_skips \in 0..MaxSkips

ResampleInit ==
    /\ BatchIdle
    /\ ProcessIdle
    /\ PoseIdle
    /\ LoggingIdle
    /\ ExtractIdle
    /\ AlignIdle
    /\ TimebaseIdle
    /\ KeypointIdle
    /\ ResampleInputs
    /\ rs_pc = "upsample"
    /\ up_offset = 0
    /\ up_iter = 0
    /\ up_out = FilledNaN(size)
    /\ spans = <<>>
    /\ ds_values = <<>>
    /\ reduce = "nanmean"
    /\ interval = 0
    /\ down_out = <<>>

\* lines 49-51
UpSkipNaN ==
    /\ rs_pc = "upsample"
    /\ up_offset < offsetceil
    /\ IsNaN(At(values, up_offset))
    /\ up_offset' = up_offset + 1
    /\ up_iter' = up_iter + 1
    /\ UNCHANGED <<nonResampleVars, values, size, pulseidxx, max_skips, rs_pc, up_out,
                   spans, ds_values, reduce, interval, down_out>>

\* the interpolation of the span between the pulses a and b
Interpolated(a, b) ==
    LET start == At(pulseidxx, a)
        stop  == At(pulseidxx, b) + 1
    IN  SliceAssign(up_out, start, stop,
                    Linear(start, stop, At(values, a), At(values, b)))

\* lines 52-56
UpAdjacent ==
    /\ rs_pc = "upsample"
    /\ up_offset < offsetceil
    /\ ~IsNaN(At(values, up_offset))
    /\ ~IsNaN(At(values, up_offset + 1))
    /\ up_out' = Interpolated(up_offset, up_offset + 1)
    /\ spans' = Append(spans, <<up_offset, up_offset + 1>>)
    /\ up_offset' = up_offset + 1
    /\ up_iter' = up_iter + 1
    /\ UNCHANGED <<nonResampleVars, values, size, pulseidxx, max_skips, rs_pc,
                   ds_values, reduce, interval, down_out>>

\* lines 57-69, the for loop breaks
UpBridge ==
    /\ rs_pc = "upsample"
    /\ up_offset < offsetceil
    /\ ~IsNaN(At(values, up_offset))
    /\ IsNaN(At(values, up_offset + 1))
    /\ BridgeSkips # {}
    /\ LET skip == MinOf(BridgeSkips)
       IN  /\ up_out' = Interpolated(up_offset, up_offset + skip + 1)
           /\ spans' = Append(spans, <<up_offset, up_offset + skip + 1>>)
           /\ up_offset' = up_offset + skip + 1
    /\ up_iter' = up_iter + 1
    /\ UNCHANGED <<nonResampleVars, values, size, pulseidxx, max_skips, rs_pc,
                   ds_values, reduce, interval, down_out>>

\* lines 57-68 without the increment of line 69
UpNoBridgeStuck ==
    /\ rs_pc = "upsample"
    /\ up_offset < offsetceil
    /\ ~IsNaN(At(values, up_offset))
    /\ IsNaN(At(values, up_offset + 1))
    /\ BridgeSkips = {}
    /\ up_iter' = up_iter + 1
    /\ UNCHANGED <<nonResampleVars, values, size, pulseidxx, max_skips, rs_pc, up_offset,
                   up_out, spans, ds_values, reduce, interval, down_out>>

\* lines 57-69, the for loop ends without a break
UpNoBridge ==
    /\ rs_pc = "upsample"
    /\ up_offset < offsetceil
    /\ ~IsNaN(At(values, up_offset))
    /\ IsNaN(At(values, up_offset + 1))
    /\ BridgeSkips = {}
    /\ up_offset' = up_offset + 1
    /\ up_iter' = up_iter + 1
    /\ UNCHANGED <<nonResampleVars, values, size, pulseidxx, max_skips, rs_pc, up_out,
                   spans, ds_values, reduce, interval, down_out>>

\* line 70, and the callers (tracking/dlc.py:110-119): u goes to downsample
UpReturn ==
    /\ rs_pc = "upsample"
    /\ ~(up_offset < offsetceil)
    /\ ds_values' = up_out
    /\ rs_pc' = "downsample"
    /\ UNCHANGED <<nonResampleVars, values, size, pulseidxx, max_skips, up_offset, up_iter,
                   up_out, spans, reduce, interval, down_out>>

\* ---- downsample
NonNaN(seq) == SelectSeq(seq, LAMBDA v : ~IsNaN(v))

\* the float32 sum of a slice, accumulated from left to right
RECURSIVE Sum32(_)
Sum32(seq) ==
    IF seq = <<>> THEN 0
    ELSE Add32(Sum32(SubSeq(seq, 1, Len(seq) - 1)), seq[Len(seq)])

\* np.nanmean: NaN for an empty or all-NaN slice (the warning is suppressed)
NanMean(seq) ==
    LET v == NonNaN(seq)
    IN  IF Len(v) = 0 THEN NaN ELSE DivCount32(Sum32(v), Len(v))

\* np.nansum, a reduction a caller may pass instead
NanSum(seq) == Sum32(NonNaN(seq))

Reducers == {"nanmean", "nansum"}

ApplyReduce(r, seq) == IF r = "nanmean" THEN NanMean(seq) ELSE NanSum(seq)

RECURSIVE SumInt(_)
SumInt(seq) == IF seq = <<>> THEN 0 ELSE seq[1] + SumInt(Tail(seq))

\* np.diff
Diff(p) == [k \in 1..(Len(p) - 1) |-> p[k + 1] - p[k]]

\* line 80: round(np.diff(pulseidxx).mean()), for at least two pulses
MeanInterval(p) == PyRound(IntDiv64(SumInt(Diff(p)), Len(p) - 1))

\* lines 87-95: the slice reduced into out[k] (k 0-based)
BinOneLater(vals, p, w, k) ==
    IF k < Len(p) - 1
    THEN Slice(vals, At(p, k) + 1, At(p, k + 1) + 1)
    ELSE Slice(vals, At(p, k) + 1, Min(Len(vals), At(p, k) + w) + 1)
Bin(vals, p, w, k) ==
    IF k < Len(p) - 1
    THEN Slice(vals, At(p, k), At(p, k + 1))
    ELSE Slice(vals, At(p, k), Min(Len(vals), At(p, k) + w))

Downsampled(vals, p, w, r) ==
    [k \in 1..Len(p) |-> Cast32(ApplyReduce(r, Bin(vals, p, w, k - 1)))]

\* line 80 with fewer than two pulses: the mean of no gap is NaN and round()
\* raises ValueError (cannot convert float NaN to integer)
DownsampleRaise ==
    /\ rs_pc = "downsample"
    /\ Len(pulseidxx) < 2
    /\ rs_pc' = "raised"
    /\ UNCHANGED <<nonResampleVars, values, size, pulseidxx, max_skips, up_offset, up_iter,
                   up_out, spans, ds_values, reduce, interval, down_out>>

\* lines 78-96
DownsampleReturn ==
    /\ rs_pc = "downsample"
    /\ Len(pulseidxx) >= 2
    /\ interval' = MeanInterval(pulseidxx)
    /\ down_out' = Downsampled(ds_values, pulseidxx, MeanInterval(pulseidxx), reduce)
    /\ rs_pc' = "done"
    /\ UNCHANGED <<nonResampleVars, values, size, pulseidxx, max_skips, up_offset, up_iter,
                   up_out, spans, ds_values, reduce>>

\* upsample, then downsample of its output at the same pulses (the round trip)
ResampleNext ==
    \/ UpSkipNaN
    \/ UpAdjacent
    \/ UpBridge
    \/ UpNoBridge
    \/ UpReturn
    \/ DownsampleRaise
    \/ DownsampleReturn

SpecResample == ResampleInit /\ [][ResampleNext]_vars

\* downsample alone: any float32 signal, any ascending pulses (also equal
\* ones, and ones past the end of the signal), either reduction
AscendingSeqs(S, n) ==
    UNION { { p \in [1..k -> S] : \A a \in 1..(k - 1) : p[a] <= p[a + 1] } : k \in 0..n }

\* raw sample j is missing (NaN) or holds 2^j, a float32 of its own
DenseSignals(n) == { [j \in 1..n |-> IF j \in T THEN Pow2(j - 1) ELSE NaN] : T \in SUBSET (1..n) }

DownInit ==
    /\ BatchIdle
    /\ ProcessIdle
    /\ PoseIdle
    /\ LoggingIdle
    /\ ExtractIdle
    /\ AlignIdle
    /\ TimebaseIdle
    /\ KeypointIdle
    /\ \E n \in 0..MaxSize : ds_values \in DenseSignals(n)
    /\ pulseidxx \in AscendingSeqs(0..MaxSize, MaxResPulses)
    /\ reduce \in Reducers
    /\ rs_pc = "downsample"
    /\ values = <<>>
    /\ size = 0
    /\ max_skips = 0
    /\ up_offset = 0
    /\ up_iter = 0
    /\ up_out = <<>>
    /\ spans = <<>>
    /\ interval = 0
    /\ down_out = <<>>

DownNext ==
    \/ DownsampleRaise
    \/ DownsampleReturn

SpecDown == DownInit /\ [][DownNext]_vars


\* ======================================================================
\* timebases.py: read_timebases and the three validations, in the order of
\* load_timebases_impl (packaging.py)

\* None of Python: no array holds a negative entry
None == <<-1>>

IsNone(arr) == arr = None

\* Timebases.replace / PulseTriggers.replace with one keyword: a value of
\* None keeps the field
Replace(obj, fld, val) == IF val = None THEN obj ELSE [obj EXCEPT ![fld] = val]

\* arr[-n:] for 0 < n <= arr.size, the other end of the array
Trailing(arr, n) == Slice(arr, Len(arr) - n, Len(arr))

\* arr[:n]
Leading(arr, n) == Slice(arr, 0, n)

\* a dataset of n entries: first, first + step, ...
Dataset(first, step, n) == [k \in 1..n |-> first + step * (k - 1)]

Lengths == 0..MaxEntries

\* the raw-data files: MATLAB (1-based) pulse indices and ticks of every
\* channel, each dataset of a length of its own; sync_pulse may lack
\* vid_acquisition_start
RawFiles ==
    { [img_acquisition_start_b |-> Dataset(1, 2, nb),
       img_acquisition_start_v |-> Dataset(2, 2, nv),
       vid_acquisition_start   |-> Dataset(1, 1, np),
       tick_raw   |-> Dataset(100, 1, nr),
       tick_img_b |-> Dataset(200, 2, tb),
       tick_img_v |-> Dataset(201, 2, tv),
       tick_vid   |-> Dataset(300, 1, tp)] :
          nb \in Lengths, nv \in Lengths, np \in Lengths, nr \in Lengths,
          tb \in Lengths, tv \in Lengths, tp \in Lengths }
    \cup
    { [img_acquisition_start_b |-> Dataset(1, 2, nb),
       img_acquisition_start_v |-> Dataset(2, 2, nv),
       vid_acquisition_start   |-> None,
       tick_raw   |-> Dataset(100, 1, nr),
       tick_img_b |-> Dataset(200, 2, tb),
       tick_img_v |-> Dataset(201, 2, tv),
       tick_vid   |-> None] :
          nb \in Lengths, nv \in Lengths, nr \in Lengths,
          tb \in Lengths, tv \in Lengths }

TimebaseInit ==
    /\ BatchIdle
    /\ ProcessIdle
    /\ PoseIdle
    /\ LoggingIdle
    /\ ExtractIdle
    /\ AlignIdle
    /\ ResampleIdle
    /\ KeypointIdle
    /\ rawfile \in RawFiles
    /\ triggers = <<>>
    /\ timebases = <<>>
    /\ num_samples = 0
    /\ num_frames = <<>>
    /\ behavior_videos = FALSE
    /\ tb_pc = "read"
    /\ instances = <<>>
    /\ refs = <<>>

\* np.array(..., dtype=np.uint32).ravel() - 1; the file holds MATLAB indices,
\* all >= 1, so the unsigned subtraction does not wrap
ToPythonIndices(arr) == [k \in 1..Len(arr) |-> arr[k] - 1]

ReadTimebases ==
    /\ tb_pc = "read"
    /\ triggers' =
           [videos |-> IF IsNone(rawfile.vid_acquisition_start) THEN None
                       ELSE ToPythonIndices(rawfile.vid_acquisition_start),
            B      |-> ToPythonIndices(rawfile.img_acquisition_start_b),
            V      |-> ToPythonIndices(rawfile.img_acquisition_start_v)]
    /\ timebases' =
           [raw    |-> rawfile.tick_raw,
            videos |-> IF IsNone(rawfile.vid_acquisition_start) THEN None
                       ELSE rawfile.tick_vid,
            B      |-> rawfile.tick_img_b,
            V      |-> rawfile.tick_img_v]
    /\ instances' = <<triggers', timebases'>>
    /\ refs' = [triggers |-> 1, timebases |-> 2]
    /\ tb_pc' = "rawdata"
    /\ UNCHANGED <<nonTimebaseVars, rawfile, num_samples, num_frames, behavior_videos>>

\* the locals of a validation: what triggers and timebases name, the
\* instances that exist, and whether a ValueError left the function
Locals ==
    [triggers |-> triggers, timebases |-> timebases, instances |-> instances,
     refs |-> refs, raised |-> FALSE]

\* the fields written into the instance the variable names
AssignedInPlace(st, var, obj) ==
    [st EXCEPT ![var] = obj, !.instances = [@ EXCEPT ![st.refs[var]] = obj]]

\* self.__class__(**fields): a new instance, which the variable var then names
Constructed(st, var, obj) ==
    [st EXCEPT ![var] = obj,
               !.instances = Append(@, obj),
               !.refs = [@ EXCEPT ![var] = Len(st.instances) + 1]]

\* var = var.replace(fld=val)
Replaced(st, var, fld, val) == Constructed(st, var, Replace(st[var], fld, val))

\* the test of line 152, and the off-by-one slip of it
TooFewOrAsMany(num_timepoints, samples) == num_timepoints <= samples

TooFew(num_timepoints, samples) == num_timepoints < samples

ValidateRawdataRaise ==
    /\ tb_pc = "rawdata"
    /\ \E n \in Lengths :
           /\ TooFew(Len(timebases.raw), n)
           /\ num_samples' = n
    /\ tb_pc' = "raised"
    /\ UNCHANGED <<nonTimebaseVars, rawfile, triggers, timebases, num_frames,
                   behavior_videos, instances, refs>>

\* lines 154-159
ValidatedRawdata(n) ==
    IF Len(timebases.raw) > n
    THEN Replaced(Locals, "timebases", "raw", Leading(timebases.raw, n))
    ELSE Locals

ValidateRawdataReturn ==
    /\ tb_pc = "rawdata"
    /\ \E n \in Lengths :
           /\ ~TooFew(Len(timebases.raw), n)
           /\ num_samples' = n
           /\ timebases' = ValidatedRawdata(n).timebases
           /\ instances' = ValidatedRawdata(n).instances
           /\ refs' = ValidatedRawdata(n).refs
    /\ tb_pc' = "imaging"
    /\ UNCHANGED <<nonTimebaseVars, rawfile, triggers, num_frames, behavior_videos>>

\* one round of the loop over the channels (lines 174-193) on the locals st;
\* raised once a ValueError left the loop
ValidateChannel(st, chan, frames) ==
    LET pulses   == st.triggers[chan]
        timebase == st.timebases[chan]
        trimmed  == IF Len(pulses) > frames
                    THEN Replaced(st, "triggers", chan, Leading(pulses, frames))
                    ELSE st
    IN  IF st.raised THEN st
        ELSE IF Len(pulses) < frames THEN [st EXCEPT !.raised = TRUE]
        ELSE IF Len(timebase) < frames THEN [trimmed EXCEPT !.raised = TRUE]
        ELSE IF Len(timebase) > frames
             THEN Replaced(trimmed, "timebases", chan, Leading(timebase, frames))
        ELSE trimmed

\* the loop over num_frames.keys(): B, then V
ValidatedImaging(frames) ==
    ValidateChannel(ValidateChannel(Locals, "B", frames.B), "V", frames.V)

FrameCounts == [B : Lengths, V : Lengths]

ValidateImagingRaise ==
    /\ tb_pc = "imaging"
    /\ \E frames \in FrameCounts :
           /\ ValidatedImaging(frames).raised
           /\ num_frames' = frames
    /\ tb_pc' = "raised"
    /\ UNCHANGED <<nonTimebaseVars, rawfile, triggers, timebases, num_samples,
                   behavior_videos, instances, refs>>

ValidateImagingReturn ==
    /\ tb_pc = "imaging"
    /\ \E frames \in FrameCounts :
           /\ ~ValidatedImaging(frames).raised
           /\ num_frames' = frames
           /\ triggers' = ValidatedImaging(frames).triggers
           /\ timebases' = ValidatedImaging(frames).timebases
           /\ instances' = ValidatedImaging(frames).instances
           /\ refs' = ValidatedImaging(frames).refs
    /\ tb_pc' = "videos"
    /\ UNCHANGED <<nonTimebaseVars, rawfile, num_samples, behavior_videos>>

\* lines 205-208
ValidatedVideos(has) ==
    IF ~has
    THEN Replaced(Replaced(Locals, "triggers", "videos", None), "timebases", "videos", None)
    ELSE Locals

\* validate_timebase_with_videos, then env.triggers and env.timebases are set
ValidateVideos ==
    /\ tb_pc = "videos"
    /\ \E has \in BOOLEAN :
           /\ behavior_videos' = has
           /\ triggers' = ValidatedVideos(has).triggers
           /\ timebases' = ValidatedVideos(has).timebases
           /\ instances' = ValidatedVideos(has).instances
           /\ refs' = ValidatedVideos(has).refs
    /\ tb_pc' = "done"
    /\ UNCHANGED <<nonTimebaseVars, rawfile, num_samples, num_frames>>

TimebaseNext ==
    \/ ReadTimebases
    \/ ValidateRawdataRaise
    \/ ValidateRawdataReturn
    \/ ValidateImagingRaise
    \/ ValidateImagingReturn
    \/ ValidateVideos

SpecTimebase == TimebaseInit /\ [][TimebaseNext]_vars


\* ======================================================================
\* alignment.py: timebase_to_daqindices

\* the while loop of line 42-43: the first offset at or after off whose
\* sample is within tolerance of pulsetrig, daq.size when there is none
RECURSIVE ScanWithin(_, _, _, _)
ScanWithin(off, pulsetrig, daq, tolerance) ==
    IF off < Len(daq) /\ Abs(pulsetrig - At(daq, off)) > tolerance
    THEN ScanWithin(off + 1, pulsetrig, daq, tolerance)
    ELSE off

Times == 0..MaxTime

Tolerances == {0, 1}

\* daq_t strictly ascending sample times, pulse_t ascending; out filled with -1
DaqIndexInit ==
    /\ BatchIdle
    /\ ProcessIdle
    /\ PoseIdle
    /\ LoggingIdle
    /\ ExtractIdle
    /\ ResampleIdle
    /\ TimebaseIdle
    /\ KeypointIdle
    /\ \E S \in SUBSET Times : daq_t = SetToAscSeq(S)
    /\ pulse_t \in AscendingSeqs(Times, MaxPulses)
    /\ tol \in Tolerances
    /\ out = FilledInt(Len(pulse_t), -1)
    /\ offset = 0
    /\ i = 0
    /\ al_pc = "t2d"
    /\ trials = <<>>
    /\ columnsettings = <<>>
    /\ al_err = NoError
    /\ col = 0
    /\ daqidxx = <<>>
    /\ aligned = <<>>
    /\ result = [index |-> <<>>, data |-> <<>>]

\* lines 41-46: a sample within tolerance is found for pulse i
T2DAssign ==
    /\ al_pc = "t2d"
    /\ i < Len(pulse_t)
    /\ LET found == ScanWithin(offset, At(pulse_t, i), daq_t, tol)
       IN  /\ found # Len(daq_t)
           /\ offset' = found
           /\ out' = [out EXCEPT ![i + 1] = found]
    /\ i' = i + 1
    /\ UNCHANGED <<nonAlignVars, daq_t, pulse_t, trials, columnsettings, al_pc, al_err,
                   col, daqidxx, aligned, result>>

\* lines 44-45: the samples are used up: break, then return out
T2DBreak ==
    /\ al_pc = "t2d"
    /\ i < Len(pulse_t)
    /\ ScanWithin(offset, At(pulse_t, i), daq_t, tol) = Len(daq_t)
    /\ offset' = Len(daq_t)
    /\ al_pc' = "t2d_done"
    /\ UNCHANGED <<nonAlignVars, daq_t, pulse_t, trials, columnsettings, al_err, col,
                   daqidxx, i, out, aligned, result>>

\* line 47, after the last pulse
T2DReturn ==
    /\ al_pc = "t2d"
    /\ i = Len(pulse_t)
    /\ al_pc' = "t2d_done"
    /\ UNCHANGED <<nonAlignVars, daq_t, pulse_t, trials, columnsettings, al_err, col,
                   daqidxx, i, offset, out, aligned, result>>

DaqIndexNext ==
    \/ T2DAssign
    \/ T2DBreak
    \/ T2DReturn

SpecDaqIndex == DaqIndexInit /\ [][DaqIndexNext]_vars


\* ======================================================================
\* tracking/validation.py: validate_keypoint

\* a sequence of numbers in ascending order
RECURSIVE Sorted(_)
Sorted(seq) ==
    IF seq = <<>> THEN <<>>
    ELSE LET m    == MinOf({ seq[k] : k \in 1..Len(seq) })
             at   == MinOf({ k \in 1..Len(seq) : seq[k] = m })
             rest == [k \in 1..(Len(seq) - 1) |-> IF k < at THEN seq[k] ELSE seq[k + 1]]
         IN  <<m>> \o Sorted(rest)

\* 100 * np.nanpercentile(v, q) for an integer q in 0..100: the linear
\* interpolation between the two nearest ranks of the non-NaN values; NaN
\* when every value is NaN
NanPercentile100(v, q) ==
    LET s   == Sorted(NonNaN(v))
        n   == Len(s)
        pos == q * (n - 1)
        lo  == pos \div 100
        hi  == Min(lo + 1, n - 1)
    IN  IF n = 0 THEN NaN
        ELSE 100 * At(s, lo) + (pos % 100) * (At(s, hi) - At(s, lo))

\* a comparison with NaN on either side is False
GreaterEqual100(val, bound100) == ~IsNaN(val) /\ ~IsNaN(bound100) /\ 100 * val >= bound100
LessEqual100(val, bound100) == ~IsNaN(val) /\ ~IsNaN(bound100) /\ 100 * val <= bound100

\* the truth value np.logical_and gives a float: every number but 0.0, NaN included
Truthy(val) == val # 0

\* _by_percentile(v)[k] as np.logical_and reads it
ByPercentile(v, k) ==
    IF IsNaN(alpha) THEN Truthy(v[k])
    ELSE /\ GreaterEqual100(v[k], NanPercentile100(v, alpha))
         /\ LessEqual100(v[k], NanPercentile100(v, 100 - alpha))

\* the test of line 79 (a NaN likelihood compares False), and the same test
\* with the comparison turned around
Unlikely(likelihood, thr) == ~IsNaN(likelihood) /\ likelihood <= thr

Likely(likelihood, thr) == ~IsNaN(likelihood) /\ likelihood >= thr

\* v[~valid] = np.nan
Nulled(v, valid) == [k \in 1..Len(v) |-> IF valid[k] THEN v[k] ELSE NaN]

Coordinates == {NaN, 0, 1, 4}

\* likelihoods and the threshold, in tenths
Likelihoods == {1, 5, 9}

Thresholds == {5}

\* alpha, in percent
Alphas == {NaN, 25}

KeypointTables ==
    UNION { [x : [1..n -> Coordinates], y : [1..n -> Coordinates],
             likelihood : [1..n -> Likelihoods]] : n \in 0..MaxFrames }

KeypointInit ==
    /\ BatchIdle
    /\ ProcessIdle
    /\ PoseIdle
    /\ LoggingIdle
    /\ ExtractIdle
    /\ AlignIdle
    /\ ResampleIdle
    /\ TimebaseIdle
    /\ dlcdata \in KeypointTables
    /\ alpha \in Alphas
    /\ threshold \in Thresholds
    /\ kp_x = <<>>
    /\ kp_y = <<>>
    /\ kp_pc = "confidence"

\* the table when x and y are views of its columns: the writes reach it
WrittenThrough(tab, newx, newy) == [tab EXCEPT !.x = newx, !.y = newy]

\* lines 75-76: x and y are np.array(column), copies, so the table is not
\* reached by the writes x[~valid] = np.nan and y[~valid] = np.nan
TableAfter(tab, newx, newy) == tab

\* lines 74-81: copies of the columns, nulled where the likelihood is low
KeypointConfidence ==
    /\ kp_pc = "confidence"
    /\ LET valid == [k \in 1..Len(dlcdata.likelihood) |->
                        Likely(dlcdata.likelihood[k], threshold)]
       IN  /\ kp_x' = Nulled(dlcdata.x, valid)
           /\ kp_y' = Nulled(dlcdata.y, valid)
    /\ dlcdata' = TableAfter(dlcdata, kp_x', kp_y')
    /\ kp_pc' = "percentile"
    /\ UNCHANGED <<nonKeypointVars, alpha, threshold>>

\* a mask of its own for each axis
ValidOnOwnAxis(axis, k) == ByPercentile(IF axis = "x" THEN kp_x ELSE kp_y, k)

\* lines 84-87: valid[k], the one mask applied to either axis
ValidOn(axis, k) == ByPercentile(kp_x, k) /\ ByPercentile(kp_y, k)

\* lines 84-90: nulled where either axis fails the percentile filter; the
\* PointEstimation returned holds x and y
KeypointPercentile ==
    /\ kp_pc = "percentile"
    /\ kp_x' = Nulled(kp_x, [k \in 1..Len(kp_x) |-> ValidOn("x", k)])
    /\ kp_y' = Nulled(kp_y, [k \in 1..Len(kp_y) |-> ValidOn("y", k)])
    /\ dlcdata' = TableAfter(dlcdata, kp_x', kp_y')
    /\ kp_pc' = "done"
    /\ UNCHANGED <<nonKeypointVars, alpha, threshold>>

KeypointNext ==
    \/ KeypointConfidence
    \/ KeypointPercentile

SpecKeypoint == KeypointInit /\ [][KeypointNext]_vars

\* ======================================================================
\* the transformations of the session's data: either the validations of
\* load_timebases_impl or validate_keypoint is at work
TransformInit == TimebaseInit \/ KeypointInit

TransformNext == TimebaseNext \/ KeypointNext

SpecTransform == TransformInit /\ [][TransformNext]_vars

\* ======================================================================
\* the three scans: upsample, timebase_to_daqindices, or
\* align_trials_to_pulses with its calls of daqindex_to_pulseindex
ScanInit == ResampleInit \/ DaqIndexInit \/ AlignInit

ScanNext == ResampleNext \/ DaqIndexNext \/ AlignNext

SpecScan == ScanInit /\ [][ScanNext]_vars

\* ======================================================================
\* batch.py: run_batch
\* ======================================================================

\* the exceptions processing a session ends with, besides the
\* FileNotFoundError of a missing mesoscaler file: the ValueError of
\* validate_timebase_with_rawdata, the RuntimeError of add_tracking_impl, an
\* interrupt from the keyboard, the OSError of a file that cannot be opened
\* or copied; "" when nothing is raised
Faults == {"", "ValueError", "RuntimeError", "KeyboardInterrupt", "OSError"}

\* a session as run_batch sees it: has_rawdata(), whether its mesoscaler
\* file exists, and what the rest of the pipeline raises
Sessions == [rawdata : BOOLEAN, mesofile : BOOLEAN, fault : Faults]

\* a handler that matches the class OSError only, none of its subclasses
IsExactlyOSError(exc) == exc = "OSError"

\* isinstance(e, OSError): the builtin hierarchy has FileNotFoundError under
\* OSError, the others under Exception or BaseException
IsOSError(exc) == exc \in {"OSError", "FileNotFoundError"}

\* setup_source_paths as reached from process -> setup_path_settings: the
\* exception raised, "" when it returns
SetupSourcePaths(session) ==
    IF ~session.mesofile THEN "FileNotFoundError" ELSE ""

\* _packaging.process(session=sess, ...): the exception it ends with, ""
\* when it returns
Process(session) ==
    IF SetupSourcePaths(session) # ""
    THEN SetupSourcePaths(session)
    ELSE session.fault

\* run_batch is called on what iterate_sessions yields
BatchInit ==
    /\ ProcessIdle
    /\ PoseIdle
    /\ LoggingIdle
    /\ ExtractIdle
    /\ AlignIdle
    /\ ResampleIdle
    /\ TimebaseIdle
    /\ KeypointIdle
    /\ \E n \in 0..MaxSessions : sessions \in [1..n -> Sessions]
    /\ sess = 0
    /\ sessions_processed = <<>>
    /\ sessions_without_rawdata = <<>>
    /\ sessions_with_problem = <<>>
    /\ batch_pc = "loop"
    /\ batch_err = ""

\* one pass of the for loop on a session without raw data: continue
BatchWithoutRawdata ==
    /\ batch_pc = "loop"
    /\ sess < Len(sessions)
    /\ ~At(sessions, sess).rawdata
    /\ sessions_processed' = Append(sessions_processed, sess)
    /\ sessions_without_rawdata' = Append(sessions_without_rawdata, sess)
    /\ sess' = sess + 1
    /\ UNCHANGED <<sessions, sessions_with_problem, batch_pc, batch_err>>
    /\ UNCHANGED nonBatchVars

\* one pass of the for loop where process returns
BatchProcess ==
    /\ batch_pc = "loop"
    /\ sess < Len(sessions)
    /\ At(sessions, sess).rawdata
    /\ Process(At(sessions, sess)) = ""
    /\ sessions_processed' = Append(sessions_processed, sess)
    /\ sess' = sess + 1
    /\ UNCHANGED <<sessions, sessions_without_rawdata, sessions_with_problem,
                   batch_pc, batch_err>>
    /\ UNCHANGED nonBatchVars

\* one pass of the for loop where process raises an OSError: except OSError:
\* raise, and run_batch ends with the exception
BatchReraise ==
    /\ batch_pc = "loop"
    /\ sess < Len(sessions)
    /\ At(sessions, sess).rawdata
    /\ IsOSError(Process(At(sessions, sess)))
    /\ sessions_processed' = Append(sessions_processed, sess)
    /\ batch_pc' = "raised"
    /\ batch_err' = Process(At(sessions, sess))
    /\ UNCHANGED <<sessions, sess, sessions_without_rawdata,
                   sessions_with_problem>>
    /\ UNCHANGED nonBatchVars

\* one pass of the for loop where process raises anything else:
\* except BaseException as e
BatchProblem ==
    /\ batch_pc = "loop"
    /\ sess < Len(sessions)
    /\ At(sessions, sess).rawdata
    /\ Process(At(sessions, sess)) # ""
    /\ ~IsOSError(Process(At(sessions, sess)))
    /\ sessions_processed' = Append(sessions_processed, sess)
    /\ sessions_with_problem' =
           Append(sessions_with_problem, <<sess, Process(At(sessions, sess))>>)
    /\ sess' = sess + 1
    /\ UNCHANGED <<sessions, sessions_without_rawdata, batch_pc, batch_err>>
    /\ UNCHANGED nonBatchVars

\* the iteration is exhausted: the summary is logged and run_batch returns
BatchFinalize ==
    /\ batch_pc = "loop"
    /\ sess = Len(sessions)
    /\ batch_pc' = "returned"
    /\ UNCHANGED <<sessions, sess, sessions_processed, sessions_without_rawdata,
                   sessions_with_problem, batch_err>>
    /\ UNCHANGED nonBatchVars

BatchNext ==
    \/ BatchWithoutRawdata
    \/ BatchProcess
    \/ BatchReraise
    \/ BatchProblem
    \/ BatchFinalize

SpecBatch == BatchInit /\ [][BatchNext]_vars

\* ======================================================================
\* packaging.py: process
\* ======================================================================

\* NAME_MAPPINGS / VIEWS, in the order they are iterated
Views == <<"body", "face", "eye">>

ViewSet == { Views[k] : k \in 1..Len(Views) }

\* the keyword arguments of process that steer the pipeline
Options == [copy_videos : BOOLEAN, register_rois : BOOLEAN,
            write_imaging_frames : BOOLEAN, add_downsampled : BOOLEAN,
            only_downsampled : BOOLEAN, overwrite : BOOLEAN]

RuntimeError(message) == [exc |-> "RuntimeError", msg |-> message]
AttributeError(message) == [exc |-> "AttributeError", msg |-> message]
FileNotFoundError(message) == [exc |-> "FileNotFoundError", msg |-> message]
OSError(message) == [exc |-> "OSError", msg |-> message]

\* an Optional field: None, or a container with the items added to it
NoneObject == [none |-> TRUE, items |-> <<>>]
Container(items) == [none |-> FALSE, items |-> items]

\* what locate_pupil_file may give: None, a path to no file, a path to a file
PupilFiles == {"None", "missing", "exists"}

\* PathSettings as far as process reads it:
\*   any_videos    session.has_any_videos()
\*   videos        the views v with paths.source.videos.v.path not None
\*   deeplabcut    the views v with paths.source.deeplabcut.v not None
\*   pupilfitting  paths.source.pupilfitting
\*   nwb_exists    paths.destination.nwb.exists()
NonePaths == [none |-> TRUE, any_videos |-> FALSE, videos |-> {},
              deeplabcut |-> {}, pupilfitting |-> "None", nwb_exists |-> FALSE]

\* setup_source_paths: the pupil file is only looked for when there are
\* results of the eye model (lines 203-209)
PupFile(dlcfiles, located) == IF "eye" \in dlcfiles THEN located ELSE "None"

\* PackagingEnvironment(paths, metadata, trialspec, verbose): the defaults
NewEnvironment ==
    [timebases |-> NoneObject, nwbfile |-> NoneObject,
     downsampled |-> NoneObject, has_trials_flag |-> FALSE,
     has_behavior_flag |-> FALSE]

\* process is called
ProcessInit ==
    /\ BatchIdle
    /\ PoseIdle
    /\ LoggingIdle
    /\ ExtractIdle
    /\ AlignIdle
    /\ ResampleIdle
    /\ TimebaseIdle
    /\ KeypointIdle
    /\ opts \in Options
    /\ paths = NonePaths
    /\ env = NewEnvironment
    /\ pr_trace = <<>>
    /\ pr_downsample = FALSE
    /\ pr_pc = "setup_path_settings"
    /\ pr_err = NoError
    /\ pr_ret = ""

\* the exception leaves process
Raise(e) ==
    /\ pr_pc' = "raised"
    /\ pr_err' = e

\* process returns
Return(value) ==
    /\ pr_pc' = "returned"
    /\ pr_ret' = value

\* the step appends to what process has done
Did(kind, what) == pr_trace' = Append(pr_trace, <<kind, what>>)

\* container.add(...) / add_acquisition(...): one more item
Added(container, item) == Container(Append(container.items, item))

\* setup_path_settings (configure/session.py:83-123) with setup_source_paths
SetupPathSettings ==
    /\ pr_pc = "setup_path_settings"
    /\ \/ \* not session.has_rawdata(): return None
          /\ paths' = NonePaths
          /\ pr_pc' = "paths"
          /\ UNCHANGED pr_err
       \/ \* the mesoscaler file is missing
          /\ Raise(FileNotFoundError("mesofile"))
          /\ UNCHANGED paths
       \/ \E anyv, exists \in BOOLEAN, vids, dlcfiles \in SUBSET ViewSet,
             located \in PupilFiles :
              /\ paths' = [none |-> FALSE, any_videos |-> anyv, videos |-> vids,
                           deeplabcut |-> dlcfiles,
                           pupilfitting |-> PupFile(dlcfiles, located),
                           nwb_exists |-> exists]
              /\ pr_pc' = "paths"
              /\ UNCHANGED pr_err
    /\ UNCHANGED <<opts, env, pr_trace, pr_downsample, pr_ret>>
    /\ UNCHANGED nonProcessVars

\* the steps with the NWB file written before the tracking is added
PipelineWritingEarly(o) ==
    <<"configure_nwbfile", "load_timebases", "add_raw_recordings", "add_trials",
      "add_behavior_videos", "add_imaging_data", "add_rois", "write_nwb_file",
      "add_tracking">>
    \o (IF o.add_downsampled
        THEN <<"configure_downsampled_module", "add_downsampled_recordings",
               "add_downsampled_trials", "add_downsampled_tracking">>
        ELSE <<>>)

\* process, lines 326-342: the steps on env, in order
Pipeline(o) ==
    <<"configure_nwbfile", "load_timebases", "add_raw_recordings", "add_trials",
      "add_behavior_videos", "add_imaging_data", "add_rois", "add_tracking">>
    \o (IF o.add_downsampled
        THEN <<"configure_downsampled_module", "add_downsampled_recordings",
               "add_downsampled_trials", "add_downsampled_tracking">>
        ELSE <<>>)
    \o <<"write_nwb_file">>

\* the step that follows step, "return" after the last one
After(step) ==
    LET steps == Pipeline(opts)
        k == CHOOSE n \in 1..Len(steps) : steps[n] = step
    IN  IF k < Len(steps) THEN steps[k + 1] ELSE "return"

\* the file is replaced whether it exists or not
KeepsNever(exists, overwrite) == FALSE

\* outfile.exists() and (not overwrite)
KeepsExisting(exists, overwrite) == exists /\ ~overwrite

\* process, lines 307-313: the two early returns
CheckPaths ==
    /\ pr_pc = "paths"
    /\ IF paths.none
       THEN Return("None")
       ELSE IF KeepsExisting(paths.nwb_exists, opts.overwrite)
            THEN Return("None")
            ELSE pr_pc' = "read_recordings_metadata" /\ UNCHANGED pr_ret
    /\ UNCHANGED <<opts, paths, env, pr_trace, pr_downsample, pr_err>>
    /\ UNCHANGED nonProcessVars

\* read_recordings_metadata(paths.session, paths.source.rawdata) and
\* PackagingEnvironment(...), lines 314-325; the raw data file may fail to
\* open
ReadRecordingsMetadata ==
    /\ pr_pc = "read_recordings_metadata"
    /\ \/ /\ Raise(OSError("rawdata"))
          /\ UNCHANGED <<env, pr_trace>>
       \/ /\ Did("read", "rawdata")
          /\ env' = NewEnvironment
          /\ pr_pc' = Pipeline(opts)[1]
          /\ UNCHANGED pr_err
    /\ UNCHANGED <<opts, paths, pr_downsample, pr_ret>>
    /\ UNCHANGED nonProcessVars

\* env.configure_nwbfile()
ConfigureNwbfile ==
    /\ pr_pc = "configure_nwbfile"
    /\ env' = [env EXCEPT !.nwbfile = Container(<<>>)]
    /\ Did("create", "nwbfile")
    /\ pr_pc' = After("configure_nwbfile")
    /\ UNCHANGED <<opts, paths, pr_downsample, pr_err, pr_ret>>
    /\ UNCHANGED nonProcessVars

\* env.load_timebases(): load_timebases_impl returns the validated
\* timebases, or a validation raises the ValueError of a count mismatch
LoadTimebases ==
    /\ pr_pc = "load_timebases"
    /\ \/ /\ Raise(ValueError("mismatch"))
          /\ UNCHANGED <<env, pr_trace>>
       \/ /\ env' = [env EXCEPT !.timebases = Container(<<"raw", "videos", "B", "V">>)]
          /\ Did("load", "timebases")
          /\ pr_pc' = After("load_timebases")
          /\ UNCHANGED pr_err
    /\ UNCHANGED <<opts, paths, pr_downsample, pr_ret>>
    /\ UNCHANGED nonProcessVars

\* the step appends several entries to what process has done
DidAll(events) == pr_trace' = pr_trace \o events

\* PackagingEnvironment.has_videos
HasVideos(e) ==
    /\ ~e.timebases.none
    /\ \E k \in 1..Len(e.timebases.items) : e.timebases.items[k] = "videos"

\* env.add_raw_recordings(add_to_nwb=(not only_downsampled))
AddRawRecordings ==
    /\ pr_pc = "add_raw_recordings"
    /\ IF ~opts.only_downsampled
       THEN /\ env' = [env EXCEPT !.nwbfile = Added(env.nwbfile, "recordings")]
            /\ DidAll(<< <<"read", "rawdata">>, <<"add", "recordings">> >>)
       ELSE UNCHANGED <<env, pr_trace>>
    /\ pr_pc' = After("add_raw_recordings")
    /\ UNCHANGED <<opts, paths, pr_downsample, pr_err, pr_ret>>
    /\ UNCHANGED nonProcessVars

\* add_trials_impl(env, add_to_nwb, downsample): load_trials gives None or
\* the trials, or aligning them raises (alignment.py:84-102)
AddTrialsImpl(add_to_nwb, downsample) ==
    IF ~add_to_nwb
    THEN /\ pr_pc' = After(pr_pc)
         /\ UNCHANGED <<env, pr_trace, pr_err>>
    ELSE \/ /\ Raise(KeyError("column"))
            /\ DidAll(<< <<"read", "rawdata">> >>)
            /\ UNCHANGED env
         \/ \* trials is None
            /\ DidAll(<< <<"read", "rawdata">> >>)
            /\ pr_pc' = After(pr_pc)
            /\ UNCHANGED <<env, pr_err>>
         \/ /\ IF downsample
               THEN /\ ~env.downsampled.none
                    /\ env' = [env EXCEPT
                                   !.downsampled = Added(env.downsampled, "trials"),
                                   !.has_trials_flag = TRUE]
                    /\ DidAll(<< <<"read", "rawdata">>, <<"add_downsampled", "trials">> >>)
               ELSE /\ env' = [env EXCEPT
                                   !.nwbfile = Added(env.nwbfile, "trials"),
                                   !.has_trials_flag = TRUE]
                    /\ DidAll(<< <<"read", "rawdata">>, <<"add", "trials">> >>)
            /\ pr_pc' = After(pr_pc)
            /\ UNCHANGED pr_err

\* env.add_trials(add_to_nwb=(not only_downsampled))
AddTrials ==
    /\ pr_pc = "add_trials"
    /\ AddTrialsImpl(~opts.only_downsampled, FALSE)
    /\ UNCHANGED <<opts, paths, pr_downsample, pr_ret>>
    /\ UNCHANGED nonProcessVars

\* write_videos (videos.py:52-104): what it does for the views from the
\* k-th on
RECURSIVE WriteVideos(_, _, _)
WriteVideos(k, vids, copy_files) ==
    IF k > Len(Views) THEN <<>>
    ELSE (IF Views[k] \in vids
          THEN (IF copy_files THEN << <<"file", "video">> >> ELSE <<>>)
               \o << <<"add", "video">> >>
          ELSE <<>>)
         \o WriteVideos(k + 1, vids, copy_files)

\* the items write_videos adds to the NWB file
RECURSIVE VideoEntries(_, _)
VideoEntries(k, vids) ==
    IF k > Len(Views) THEN <<>>
    ELSE (IF Views[k] \in vids THEN <<"video">> ELSE <<>>)
         \o VideoEntries(k + 1, vids)

\* env.add_behavior_videos(copy_videos=copy_videos and (not only_downsampled))
AddBehaviorVideos ==
    /\ pr_pc = "add_behavior_videos"
    /\ LET copy_videos == opts.copy_videos /\ ~opts.only_downsampled
       IN  IF copy_videos /\ ~HasVideos(env)
           THEN UNCHANGED <<env, pr_trace>>
           ELSE /\ DidAll(WriteVideos(1, paths.videos, copy_videos))
                /\ env' = [env EXCEPT !.nwbfile =
                               Container(env.nwbfile.items \o VideoEntries(1, paths.videos))]
    /\ pr_pc' = After("add_behavior_videos")
    /\ UNCHANGED <<opts, paths, pr_downsample, pr_err, pr_ret>>
    /\ UNCHANGED nonProcessVars

\* env.add_imaging_data(to_be_written=write_imaging_frames and (not
\* only_downsampled), used_for_rois=register_rois): add_imaging_data_impl
AddImagingData ==
    /\ pr_pc = "add_imaging_data"
    /\ LET to_be_written == opts.write_imaging_frames /\ ~opts.only_downsampled
       IN  DidAll(<< <<"read", "rawdata">> >>
                  \o (IF to_be_written
                      THEN << <<"file", "frames">>, <<"file", "frames">> >>
                      ELSE <<>>)
                  \o << <<"add", "imaging">> >>)
    /\ env' = [env EXCEPT !.nwbfile = Added(env.nwbfile, "imaging")]
    /\ pr_pc' = After("add_imaging_data")
    /\ UNCHANGED <<opts, paths, pr_downsample, pr_err, pr_ret>>
    /\ UNCHANGED nonProcessVars

\* env.add_rois(register_rois=register_rois)
AddRois ==
    /\ pr_pc = "add_rois"
    /\ IF opts.register_rois
       THEN /\ env' = [env EXCEPT !.nwbfile = Added(env.nwbfile, "rois")]
            /\ DidAll(<< <<"add", "rois">> >>)
       ELSE UNCHANGED <<env, pr_trace>>
    /\ pr_pc' = After("add_rois")
    /\ UNCHANGED <<opts, paths, pr_downsample, pr_err, pr_ret>>
    /\ UNCHANGED nonProcessVars

\* DLCResultFiles.has_any_results
HasAnyResults(dlcfiles) == \E view \in ViewSet : view \in dlcfiles

\* the container add_tracking_impl calls behav
Behav(e, downsample) == IF downsample THEN e.downsampled ELSE e.nwbfile

\* behav.add(item) on the environment
BehavAdded(e, downsample, items) ==
    IF downsample
    THEN [e EXCEPT !.downsampled = Container(e.downsampled.items \o items)]
    ELSE [e EXCEPT !.nwbfile = Container(e.nwbfile.items \o items)]

\* add_tracking_impl, lines 495-509: env.add_tracking(add_to_nwb=(not
\* only_downsampled)) and env.add_downsampled_tracking()
AddTrackingImpl ==
    /\ pr_pc \in {"add_tracking", "add_downsampled_tracking"}
    /\ LET downsample == pr_pc = "add_downsampled_tracking"
           add_to_nwb == downsample \/ ~opts.only_downsampled
       IN  IF ~HasAnyResults(paths.deeplabcut)
           THEN IF paths.any_videos
                THEN /\ Raise(RuntimeError("DLC results not found"))
                     /\ UNCHANGED <<env, pr_trace, pr_downsample>>
                ELSE /\ pr_pc' = After(pr_pc)
                     /\ UNCHANGED <<env, pr_trace, pr_downsample, pr_err>>
           ELSE IF downsample
                THEN /\ pr_downsample' = TRUE
                     /\ pr_pc' = "iterate_pose_estimations"
                     /\ UNCHANGED <<env, pr_trace, pr_err>>
                ELSE IF ~add_to_nwb
                     THEN /\ env' = [env EXCEPT !.has_behavior_flag = TRUE]
                          /\ pr_pc' = After(pr_pc)
                          /\ UNCHANGED <<pr_trace, pr_downsample, pr_err>>
                     ELSE /\ env' = [env EXCEPT !.nwbfile = Added(env.nwbfile, "behavior")]
                          /\ Did("create", "behavior")
                          /\ pr_downsample' = FALSE
                          /\ pr_pc' = "iterate_pose_estimations"
                          /\ UNCHANGED pr_err
    /\ UNCHANGED <<opts, paths, pr_ret>>
    /\ UNCHANGED nonProcessVars

\* the views iterate_pose_estimations yields a PoseEstimation for: those
\* with a video and with model results (dlc.py:69-84), in order
RECURSIVE Yielded(_, _, _)
Yielded(k, vids, dlcfiles) ==
    IF k > Len(Views) THEN <<>>
    ELSE (IF Views[k] \in vids /\ Views[k] \in dlcfiles THEN <<Views[k]>> ELSE <<>>)
         \o Yielded(k + 1, vids, dlcfiles)

\* one entry per member of seq
Each(seq, entry) == [k \in 1..Len(seq) |-> entry]

\* the name of the add event
AddKind(downsample) == IF downsample THEN "add_downsampled" ELSE "add"

\* add_tracking_impl, lines 511-519: the for loop over
\* iterate_pose_estimations; prepare_table_results raises in the view whose
\* frame count is not the pulse count (validation.py:110)
IteratePoseEstimations ==
    /\ pr_pc = "iterate_pose_estimations"
    /\ LET views == Yielded(1, paths.videos, paths.deeplabcut)
       IN  \E n \in 0..Len(views) :
               /\ env' = BehavAdded(env, pr_downsample, Each(SubSeq(views, 1, n), "pose"))
               /\ DidAll(Each(SubSeq(views, 1, n), <<AddKind(pr_downsample), "pose">>))
               /\ IF n < Len(views)
                  THEN Raise(RuntimeError("untolerable mismatch"))
                  ELSE pr_pc' = "load_pupil_fitting" /\ UNCHANGED pr_err
    /\ UNCHANGED <<opts, paths, pr_downsample, pr_ret>>
    /\ UNCHANGED nonProcessVars

\* the pupil file is there
PupilFound(path) == path = "exists"

\* add_tracking_impl, lines 521-533, with load_pupil_fitting
\* (tracking/pupil.py:70-139)
LoadPupilFitting ==
    /\ pr_pc = "load_pupil_fitting"
    /\ LET step == IF pr_downsample THEN "add_downsampled_tracking" ELSE "add_tracking"
       IN  IF paths.pupilfitting = "None"
           THEN \* None.exists()
                /\ Raise(AttributeError("'NoneType' object has no attribute 'exists'"))
                /\ UNCHANGED <<env, pr_trace>>
           ELSE IF ~PupilFound(paths.pupilfitting)
                THEN \* pupil is None
                     /\ env' = [env EXCEPT !.has_behavior_flag = TRUE]
                     /\ pr_pc' = After(step)
                     /\ UNCHANGED <<pr_trace, pr_err>>
                ELSE \/ /\ Raise(RuntimeError("untolerable mismatch"))
                        /\ UNCHANGED <<env, pr_trace>>
                     \/ /\ "eye" \in paths.videos
                        /\ env' = [BehavAdded(env, pr_downsample, <<"eye", "pupil_dia">>)
                                       EXCEPT !.has_behavior_flag = TRUE]
                        /\ DidAll(Each(<<1, 2>>, <<AddKind(pr_downsample), "pupil">>))
                        /\ pr_pc' = After(step)
                        /\ UNCHANGED pr_err
    /\ UNCHANGED <<opts, paths, pr_downsample, pr_ret>>
    /\ UNCHANGED nonProcessVars

\* env.configure_downsampled_module()
ConfigureDownsampledModule ==
    /\ pr_pc = "configure_downsampled_module"
    /\ env' = [env EXCEPT !.downsampled = Container(<<>>)]
    /\ Did("create", "downsampled")
    /\ pr_pc' = After("configure_downsampled_module")
    /\ UNCHANGED <<opts, paths, pr_downsample, pr_err, pr_ret>>
    /\ UNCHANGED nonProcessVars

\* env.add_downsampled_recordings()
AddDownsampledRecordings ==
    /\ pr_pc = "add_downsampled_recordings"
    /\ IF env.downsampled.none
       THEN /\ Raise(AttributeError("'NoneType' object has no attribute 'add'"))
            /\ DidAll(<< <<"read", "rawdata">> >>)
            /\ UNCHANGED env
       ELSE /\ env' = [env EXCEPT !.downsampled = Added(env.downsampled, "recordings")]
            /\ DidAll(<< <<"read", "rawdata">>, <<"add_downsampled", "recordings">> >>)
            /\ pr_pc' = After("add_downsampled_recordings")
            /\ UNCHANGED pr_err
    /\ UNCHANGED <<opts, paths, pr_downsample, pr_ret>>
    /\ UNCHANGED nonProcessVars

\* env.add_downsampled_trials()
AddDownsampledTrials ==
    /\ pr_pc = "add_downsampled_trials"
    /\ AddTrialsImpl(TRUE, TRUE)
    /\ UNCHANGED <<opts, paths, pr_downsample, pr_ret>>
    /\ UNCHANGED nonProcessVars

\* env.write_nwb_file() (lines 219-234): the file is written, or it cannot
\* be created
WriteNwbFile ==
    /\ pr_pc = "write_nwb_file"
    /\ \/ /\ Raise(OSError("nwb"))
          /\ UNCHANGED pr_trace
       \/ /\ Did("file", "nwb")
          /\ pr_pc' = After("write_nwb_file")
          /\ UNCHANGED pr_err
    /\ UNCHANGED <<opts, paths, env, pr_downsample, pr_ret>>
    /\ UNCHANGED nonProcessVars

\* return env.nwbfile
ReturnNwbfile ==
    /\ pr_pc = "return"
    /\ Return("nwbfile")
    /\ UNCHANGED <<opts, paths, env, pr_trace, pr_downsample, pr_err>>
    /\ UNCHANGED nonProcessVars

ProcessNext ==
    \/ SetupPathSettings
    \/ CheckPaths
    \/ ReadRecordingsMetadata
    \/ ConfigureNwbfile
    \/ LoadTimebases
    \/ AddRawRecordings
    \/ AddTrials
    \/ AddBehaviorVideos
    \/ AddImagingData
    \/ AddRois
    \/ AddTrackingImpl
    \/ IteratePoseEstimations
    \/ LoadPupilFitting
    \/ ConfigureDownsampledModule
    \/ AddDownsampledRecordings
    \/ AddDownsampledTrials
    \/ WriteNwbFile
    \/ ReturnNwbfile

SpecProcess == ProcessInit /\ [][ProcessNext]_vars

\* ======================================================================
\* tracking/validation.py: validate_index_ranges, prepare_table_results
\* tracking/dlc.py: the series of iterate_pose_estimations
\* ======================================================================

\* slice(None, None) and slice(0, n)
SliceAll == [start |-> 0, stop |-> 0, open |-> TRUE]
SliceTo(n) == [start |-> 0, stop |-> n, open |-> FALSE]

\* the number of entries arr[range] selects from an array of length rows
Selected(range, rows) ==
    IF range.open
    THEN Max(rows - range.start, 0)
    ELSE Max(Min(range.stop, rows) - range.start, 0)

\* validate_index_ranges with the bounds of the tolerance excluded
ValidateIndexRangesStrict(frames, pulses, tolerance) ==
    LET delta == frames - pulses
    IN  IF delta = 0
        THEN [raised |-> FALSE, pulserange |-> SliceAll, framerange |-> SliceAll]
        ELSE IF 0 < delta /\ delta < tolerance
        THEN [raised |-> FALSE, pulserange |-> SliceAll, framerange |-> SliceTo(pulses)]
        ELSE IF (-1 * tolerance) < delta /\ delta < 0
        THEN [raised |-> FALSE, pulserange |-> SliceTo(frames), framerange |-> SliceAll]
        ELSE [raised |-> TRUE, pulserange |-> SliceAll, framerange |-> SliceAll]

\* validate_index_ranges(num_frames, num_pulses, mismatch_tolerance):
\* raised, or the pair it returns
ValidateIndexRanges(frames, pulses, tolerance) ==
    LET delta == frames - pulses
    IN  IF delta = 0
        THEN [raised |-> FALSE, pulserange |-> SliceAll, framerange |-> SliceAll]
        ELSE IF 0 < delta /\ delta <= tolerance
        THEN [raised |-> FALSE, pulserange |-> SliceAll, framerange |-> SliceTo(pulses)]
        ELSE IF (-1 * tolerance) <= delta /\ delta < 0
        THEN [raised |-> FALSE, pulserange |-> SliceTo(frames), framerange |-> SliceAll]
        ELSE [raised |-> TRUE, pulserange |-> SliceAll, framerange |-> SliceAll]

AssertionError(message) == [exc |-> "AssertionError", msg |-> message]

\* what a view's pass of iterate_pose_estimations is given, as sizes:
\*   num_frames   srcvideo.num_frames, from the video's metadata file
\*   num_pulses   timebases.videos.size, also triggers.videos.size (the raw
\*                file holds one tick per video pulse)
\*   tab          the rows of the table in the results file
\*   dFF          timebases.dFF.size, also triggers.dFF.size (the imaging
\*                channels leave load_timebases_impl with as many ticks as
\*                triggers)
PoseArgs ==
    [num_frames : 0..MaxRows, num_pulses : 0..MaxRows, tab : 0..MaxRows,
     dFF : 0..MaxRows,
     mismatch_tolerance : 0..MaxTolerance, downsample : BOOLEAN]

NoRanges == [raised |-> FALSE, pulserange |-> SliceAll, framerange |-> SliceAll]
NoRows == [t |-> 0, trigs |-> 0, tab |-> 0]
NoSeries == [data |-> 0, timestamps |-> 0, confidence |-> 0]

\* a view with a video and model results is reached (dlc.py:98)
PoseInit ==
    /\ LoggingIdle
    /\ ExtractIdle
    /\ BatchIdle
    /\ ProcessIdle
    /\ AlignIdle
    /\ ResampleIdle
    /\ TimebaseIdle
    /\ KeypointIdle
    /\ pt_args \in PoseArgs
    /\ pt_ranges = NoRanges
    /\ pt_prepared = NoRows
    /\ pt_series = NoSeries
    /\ pt_pc = "validate_index_ranges"
    /\ pt_err = NoError

\* prepare_table_results, lines 122-126
PoseValidateIndexRanges ==
    /\ pt_pc = "validate_index_ranges"
    /\ LET ranges == ValidateIndexRanges(pt_args.num_frames, pt_args.num_pulses,
                                         pt_args.mismatch_tolerance)
       IN  IF ranges.raised
           THEN /\ pt_pc' = "raised"
                /\ pt_err' = RuntimeError("untolerable mismatch")
                /\ UNCHANGED pt_ranges
           ELSE /\ pt_ranges' = ranges
                /\ pt_pc' = "read_hdf"
                /\ UNCHANGED pt_err
    /\ UNCHANGED <<pt_args, pt_prepared, pt_series>>
    /\ UNCHANGED nonPoseVars

\* prepare_table_results, lines 127-132
PosePrepareTable ==
    /\ pt_pc = "read_hdf"
    /\ LET tab   == Selected(pt_ranges.framerange, pt_args.tab)
           t     == Selected(pt_ranges.pulserange, pt_args.num_pulses)
           trigs == Selected(pt_ranges.pulserange, pt_args.num_pulses)
       IN  IF tab # t
           THEN /\ pt_pc' = "raised"
                /\ pt_err' = AssertionError("tab.shape[0] == t.size")
                /\ UNCHANGED pt_prepared
           ELSE /\ pt_prepared' = [t |-> t, trigs |-> trigs, tab |-> tab]
                /\ pt_pc' = "series"
                /\ UNCHANGED pt_err
    /\ UNCHANGED <<pt_args, pt_ranges, pt_series>>
    /\ UNCHANGED nonPoseVars

\* the rows of downsample's output: out = np.empty((pulseidxx.size,))
\* (tracking/alignment.py:78)
DownsampledRows(pulses) == pulses

\* iterate_pose_estimations, lines 106-151: the PoseEstimationSeries of a
\* keypoint; with fewer than two imaging pulses downsample raises (round of
\* the NaN mean, tracking/alignment.py:80)
PoseSeries ==
    /\ pt_pc = "series"
    /\ IF pt_args.downsample
       THEN IF pt_args.dFF < 2
            THEN /\ pt_pc' = "raised"
                 /\ pt_err' = ValueError("cannot convert float NaN to integer")
                 /\ UNCHANGED pt_series
            ELSE /\ pt_series' = [data |-> DownsampledRows(pt_args.dFF),
                                  timestamps |-> pt_args.dFF,
                                  confidence |-> pt_prepared.tab]
                 /\ pt_pc' = "yielded"
                 /\ UNCHANGED pt_err
       ELSE /\ pt_series' = [data |-> pt_prepared.tab,
                             timestamps |-> pt_prepared.t,
                             confidence |-> pt_prepared.tab]
            /\ pt_pc' = "yielded"
            /\ UNCHANGED pt_err
    /\ UNCHANGED <<pt_args, pt_ranges, pt_prepared>>
    /\ UNCHANGED nonPoseVars

PoseNext ==
    \/ PoseValidateIndexRanges
    \/ PosePrepareTable
    \/ PoseSeries

SpecPose == PoseInit /\ [][PoseNext]_vars

\* ---------------------------------------------------------------------
\* logging/__init__.py: the module's logger and its log file
\* ---------------------------------------------------------------------

NoHandler == [kind |-> "None", id |-> 0]
ConsoleHandler == [kind |-> "console", id |-> 0]
\* a handler somebody else added to logging.getLogger('bdbc') beforehand
ForeignHandler == [kind |-> "foreign", id |-> 0]
\* the n-th logging.FileHandler object constructed
FileHandler(n) == [kind |-> "file", id |-> n]

NoPath == [name |-> "None", stamp |-> 0]
\* the values of the file argument
LogFiles == {"None", "run.txt"}

\* _setup_filepath: Path(file), or logdir / prefix + timestamp + suffix
SetupFilepath(file, prefix, now) ==
    IF file # "None"
    THEN [name |-> file, stamp |-> 0]
    ELSE [name |-> prefix, stamp |-> now]

\* the module's globals and the handlers of the 'bdbc' logger, as one value
Globals ==
    [logger |-> APP_LOGGER, formatter |-> LOGGING_FORMATTER,
     output |-> FILE_OUTPUT, path |-> FILE_OUTPUT_PATH,
     handlers |-> lg_handlers]

\* get_logger() without file output: _init on the first call
GetLogger(g) ==
    IF g.logger = "None"
    THEN [g EXCEPT !.logger = "bdbc",
                   !.formatter = "formatter",
                   !.handlers = {ConsoleHandler}]
    ELSE g

\* set_file_output without its test of FILE_OUTPUT
SetFileOutputAgain(g, root, file, opens, n) ==
    IF ~opens
    THEN [g |-> g, err |-> OSError("open")]
    ELSE LET set   == [g EXCEPT !.output = FileHandler(n), !.path = file]
             found == IF root = "None" THEN GetLogger(set) ELSE set
         IN  [g   |-> [found EXCEPT !.handlers = (@ \ {g.output}) \cup {FileHandler(n)}],
              err |-> NoError]

\* set_file_output(root, file...): the globals it leaves and what it raised;
\* opens tells whether logging.FileHandler could open the file, n names the
\* handler object it constructs
SetFileOutput(g, root, file, opens, n) ==
    IF g.output # NoHandler
    THEN [g |-> g, err |-> RuntimeError("log file output has been already set")]
    ELSE IF ~opens
    THEN [g |-> g, err |-> OSError("open")]
    ELSE LET set   == [g EXCEPT !.output = FileHandler(n), !.path = file]
             found == IF root = "None" THEN GetLogger(set) ELSE set
         IN  [g   |-> [found EXCEPT !.handlers = @ \cup {FileHandler(n)}],
              err |-> NoError]

LoggingInit ==
    /\ AlignIdle
    /\ ResampleIdle
    /\ TimebaseIdle
    /\ KeypointIdle
    /\ BatchIdle
    /\ ProcessIdle
    /\ PoseIdle
    /\ ExtractIdle
    /\ APP_LOGGER = "None"
    /\ LOGGING_FORMATTER = "None"
    /\ FILE_OUTPUT = NoHandler
    /\ FILE_OUTPUT_PATH = NoPath
    /\ lg_handlers \in {{}, {ForeignHandler}}
    /\ lg_calls = 0
    /\ lg_call = [op |-> "import", file_output |-> FALSE, opens |-> FALSE]
    /\ lg_ret = "None"
    /\ lg_err = NoError

\* the globals become g
Assign(g) ==
    /\ APP_LOGGER' = g.logger
    /\ LOGGING_FORMATTER' = g.formatter
    /\ FILE_OUTPUT' = g.output
    /\ FILE_OUTPUT_PATH' = g.path
    /\ lg_handlers' = g.handlers

\* a call of get_logger(file_output, file, prefix) made by caller
GetLoggerCall(caller, file_output, file, prefix, opens) ==
    /\ lg_calls' = lg_calls + 1
    /\ lg_call' = [op |-> caller, file_output |-> file_output, opens |-> opens]
    /\ LET init == GetLogger(Globals)
           set  == SetFileOutput(init, init.logger,
                                 SetupFilepath(file, prefix, lg_calls + 1),
                                 opens, lg_calls + 1)
       IN  IF file_output
           THEN /\ Assign(set.g)
                /\ lg_err' = set.err
                /\ lg_ret' = IF set.err = NoError THEN set.g.logger ELSE "None"
           ELSE /\ Assign(init)
                /\ lg_err' = NoError
                /\ lg_ret' = init.logger
    /\ UNCHANGED nonLoggingVars

\* get_logger(file_output=..., file=...)
LgGetLogger ==
    \E file_output \in BOOLEAN, file \in LogFiles, opens \in BOOLEAN :
        /\ lg_calls < MaxCalls
        /\ GetLoggerCall("get_logger", file_output, file, "log", opens)

\* batch.py:61, the first statement of find_missing
LgFindMissing ==
    \E opens \in BOOLEAN :
        /\ lg_calls < MaxCalls
        /\ GetLoggerCall("find_missing", TRUE, "None", "batch_", opens)

\* batch.py:121-123, the first statements of run_batch
LgRunBatch ==
    \E opens \in BOOLEAN :
        /\ lg_calls < MaxCalls
        /\ GetLoggerCall("run_batch", TRUE, "None", "batch_", opens)

\* set_file_output(root=..., file=...) called directly; root is None or the
\* logger get_logger returned
LgSetFileOutput ==
    \E root \in {"None", APP_LOGGER}, file \in LogFiles, opens \in BOOLEAN :
        /\ lg_calls < MaxCalls
        /\ lg_calls' = lg_calls + 1
        /\ lg_call' = [op |-> "set_file_output", file_output |-> TRUE,
                       opens |-> opens]
        /\ LET set == SetFileOutput(Globals, root,
                                    SetupFilepath(file, "log", lg_calls + 1),
                                    opens, lg_calls + 1)
           IN  /\ Assign(set.g)
               /\ lg_err' = set.err
        /\ lg_ret' = "None"
        /\ UNCHANGED nonLoggingVars

LoggingNext ==
    \/ LgGetLogger
    \/ LgFindMissing
    \/ LgRunBatch
    \/ LgSetFileOutput

SpecLogging == LoggingInit /\ [][LoggingNext]_vars

\* ---------------------------------------------------------------------
\* trials/common.py: extract_blocks
\* trials/cued_lever_pull.py: extract_trials
\* ---------------------------------------------------------------------

UnboundLocalError(message) == [exc |-> "UnboundLocalError", msg |-> message]

\* task state
WAITING == 0
CUED == 1
REWARDED == 2

\* np.where(np.concatenate([(True,), (np.diff(flags) != 0)]))[0]
StepIdxx(flags) ==
    SetToAscSeq({k \in 0..(Len(flags) - 1) :
                    k = 0 \/ At(flags, k) # At(flags, k - 1)})

\* _add(start, stop): the row appended, or the assertion failing
AddBlock(flags, start, stop) ==
    LET vals == {At(flags, k) : k \in start..(stop - 1)}
    IN  IF Cardinality(vals) # 1
        THEN [err |-> AssertionError("len(vals) == 1"),
              row |-> [start |-> start, stop |-> stop, value |-> 0]]
        ELSE [err |-> NoError,
              row |-> [start |-> start, stop |-> stop,
                       value |-> CHOOSE v \in vals : TRUE]]

\* extract_blocks(flags): the rows of the frame it returns, or what it
\* raised. After the for loop stop is the stop of the last pass; with no
\* pass made (a single step index) the name is not bound.
ExtractBlocks(flags) ==
    LET stepidxx == StepIdxx(flags)
        n        == Len(stepidxx)
        looped   == [k \in 1..(n - 1) |->
                        AddBlock(flags, stepidxx[k], stepidxx[k + 1])]
        failed   == {k \in 1..(n - 1) : looped[k].err # NoError}
        last     == AddBlock(flags, stepidxx[n], Len(flags))
    IN  IF failed # {}
        THEN [err |-> looped[MinOf(failed)].err, blocks |-> <<>>]
        ELSE IF n < 2
        THEN [err |-> UnboundLocalError("stop"), blocks |-> <<>>]
        ELSE IF last.err # NoError
        THEN [err |-> last.err, blocks |-> <<>>]
        ELSE [err |-> NoError,
              blocks |-> [k \in 1..n |->
                            IF k < n THEN looped[k].row ELSE last.row]]

\* the daq frames handed to extract_trials: a Task_state and an Over_thr
\* column of 1..MaxSamples samples
DaqFrames ==
    UNION { [Task_state : [1..n -> {WAITING, CUED, REWARDED}],
             Over_thr : [1..n -> {0, 1}]] : n \in 1..MaxSamples }

ExtractInit ==
    /\ AlignIdle
    /\ ResampleIdle
    /\ TimebaseIdle
    /\ KeypointIdle
    /\ BatchIdle
    /\ ProcessIdle
    /\ PoseIdle
    /\ LoggingIdle
    /\ tx_daq \in DaqFrames
    /\ tx_task_state = <<>>
    /\ tx_resps = <<>>
    /\ tx_trials = <<>>
    /\ tx_stateoffset = 0
    /\ tx_respoffset = 0
    /\ tx_pc = "extract_blocks"
    /\ tx_err = NoError

\* resps.loc[resps.value == True].drop(['value'], axis=1).start.values
RespStarts(blocks) ==
    LET chosen == SelectSeq(blocks, LAMBDA b : b.value = TRUE)
    IN  [k \in 1..Len(chosen) |-> chosen[k].start]

\* extract_trials, lines 50-61
TxExtractBlocks ==
    /\ tx_pc = "extract_blocks"
    /\ LET state      == tx_daq.Task_state
           task_state == ExtractBlocks(state)
           over       == [k \in 1..Len(tx_daq.Over_thr) |-> tx_daq.Over_thr[k] > 0]
           resps      == ExtractBlocks(over)
       IN  IF task_state.err # NoError
           THEN /\ tx_err' = task_state.err
                /\ tx_pc' = "raised"
                /\ UNCHANGED <<tx_task_state, tx_resps>>
           ELSE IF resps.err # NoError
           THEN /\ tx_err' = resps.err
                /\ tx_pc' = "raised"
                /\ tx_task_state' = task_state.blocks
                /\ UNCHANGED tx_resps
           ELSE /\ tx_task_state' = task_state.blocks
                /\ tx_resps' = RespStarts(resps.blocks)
                /\ tx_pc' = "while"
                /\ UNCHANGED tx_err
    /\ UNCHANGED <<tx_daq, tx_trials, tx_stateoffset, tx_respoffset>>
    /\ UNCHANGED nonExtractVars

\* lines 63-65: not a WAITING block
TxSkip ==
    /\ tx_pc = "while"
    /\ tx_stateoffset < Len(tx_task_state)
    /\ At(tx_task_state, tx_stateoffset).value # WAITING
    /\ tx_stateoffset' = tx_stateoffset + 1
    /\ UNCHANGED <<tx_daq, tx_task_state, tx_resps, tx_trials, tx_respoffset,
                   tx_pc, tx_err>>
    /\ UNCHANGED nonExtractVars

\* lines 66-67 and 95: fewer than two blocks after the WAITING one
TxBreak ==
    /\ tx_pc = "while"
    /\ tx_stateoffset < Len(tx_task_state)
    /\ At(tx_task_state, tx_stateoffset).value = WAITING
    /\ (tx_stateoffset + 2) >= Len(tx_task_state)
    /\ tx_pc' = "returned"
    /\ UNCHANGED <<tx_daq, tx_task_state, tx_resps, tx_trials, tx_stateoffset,
                   tx_respoffset, tx_err>>
    /\ UNCHANGED nonExtractVars

\* line 68: the block after the WAITING one is not CUED
TxAssert ==
    /\ tx_pc = "while"
    /\ tx_stateoffset < Len(tx_task_state)
    /\ At(tx_task_state, tx_stateoffset).value = WAITING
    /\ (tx_stateoffset + 2) < Len(tx_task_state)
    /\ At(tx_task_state, tx_stateoffset + 1).value # CUED
    /\ tx_err' = AssertionError("task_state.value[stateoffset + 1] == 1")
    /\ tx_pc' = "raised"
    /\ UNCHANGED <<tx_daq, tx_task_state, tx_resps, tx_trials, tx_stateoffset,
                   tx_respoffset>>
    /\ UNCHANGED nonExtractVars

\* lines 74-75: respoffset after the inner while
RECURSIVE AdvanceResp(_, _, _)
AdvanceResp(resps, respoffset, start) ==
    IF respoffset < Len(resps) /\ At(resps, respoffset) < start
    THEN AdvanceResp(resps, respoffset + 1, start)
    ELSE respoffset

\* lines 69-94: a trial is appended (required_pull_duration and
\* reaction_time, computed from start and lever, are not carried)
TxTrial ==
    /\ tx_pc = "while"
    /\ tx_stateoffset < Len(tx_task_state)
    /\ At(tx_task_state, tx_stateoffset).value = WAITING
    /\ (tx_stateoffset + 2) < Len(tx_task_state)
    /\ At(tx_task_state, tx_stateoffset + 1).value = CUED
    /\ LET trial_start == At(tx_task_state, tx_stateoffset + 1).start
           trial_end   == At(tx_task_state, tx_stateoffset + 1).stop
           respoffset  == AdvanceResp(tx_resps, tx_respoffset, trial_start)
           resp        == IF respoffset < Len(tx_resps)
                             /\ At(tx_resps, respoffset) < trial_end
                          THEN At(tx_resps, respoffset)
                          ELSE -1
           rewarded    == At(tx_task_state, tx_stateoffset + 2).value = REWARDED
       IN  /\ tx_respoffset' = respoffset
           /\ tx_stateoffset' = IF rewarded THEN tx_stateoffset + 3
                                            ELSE tx_stateoffset + 2
           /\ tx_trials' = Append(tx_trials,
                                  [start |-> trial_start, end |-> trial_end,
                                   lever |-> resp, reward |-> rewarded])
    /\ UNCHANGED <<tx_daq, tx_task_state, tx_resps, tx_pc, tx_err>>
    /\ UNCHANGED nonExtractVars

\* lines 62 and 95: the blocks are used up
TxReturn ==
    /\ tx_pc = "while"
    /\ tx_stateoffset >= Len(tx_task_state)
    /\ tx_pc' = "returned"
    /\ UNCHANGED <<tx_daq, tx_task_state, tx_resps, tx_trials, tx_stateoffset,
                   tx_respoffset, tx_err>>
    /\ UNCHANGED nonExtractVars

ExtractNext ==
    \/ TxExtractBlocks
    \/ TxSkip
    \/ TxBreak
    \/ TxAssert
    \/ TxTrial
    \/ TxReturn

SpecExtract == ExtractInit /\ [][ExtractNext]_vars

\* ---------------------------------------------------------- properties
\* upsample has returned
UpDone == rs_pc \in {"downsample", "done", "raised"}

NPulses == Len(pulseidxx)

\* upsample interpolated between the pulses a and b
IsSpan(a, b) == \E k \in 1..Len(spans) : spans[k] = <<a, b>>

StartsSpan(a) == \E k \in 1..Len(spans) : spans[k][1] = a

\* lo <= v <= hi, whichever of the two ends is the lower
Between(v, e1, e2) == Min(e1, e2) <= v /\ v <= Max(e1, e2)

\* what upsample leaves at the far end of a span that no later span rewrites:
\* 1.0 * (vend - vstart) + vstart in float64, stored as float32
EndValue(vstart, vend) == Cast32(Add64(Sub64(vend, vstart), vstart))

KnownNeighbours(a, b) ==
    /\ a < b
    /\ ~IsNaN(At(values, a))
    /\ ~IsNaN(At(values, b))
    /\ \A c \in (a + 1)..(b - 1) : IsNaN(At(values, c))

\* C4: a run of k NaN pulses between two non-NaN pulses is bridged by one
\* interpolated span iff k <= max_skips; otherwise the raw samples strictly
\* between the two pulses stay NaN; the raw samples before the first pulse
\* and after the last span stay NaN; the output has exactly `size` entries.
C4_GapPolicy ==
    UpDone =>
        /\ Len(up_out) = size
        /\ \A a, b \in 0..(NPulses - 1) :
               KnownNeighbours(a, b) =>
                   /\ IsSpan(a, b) <=> (b - a - 1 <= max_skips)
                   /\ IsSpan(a, b) =>
                          \A j \in At(pulseidxx, a)..At(pulseidxx, b) : ~IsNaN(At(up_out, j))
                   /\ ~IsSpan(a, b) =>
                          \A j \in (At(pulseidxx, a) + 1)..(At(pulseidxx, b) - 1) :
                              IsNaN(At(up_out, j))
        /\ \A k \in 1..Len(spans) : KnownNeighbours(spans[k][1], spans[k][2])
        /\ \A j \in 0..(size - 1) :
               (\/ spans = <<>>
                \/ NPulses = 0
                \/ j < At(pulseidxx, 0)
                \/ j > At(pulseidxx, spans[Len(spans)][2]))
                   => IsNaN(At(up_out, j))

\* C4 witness: with max_skips = 1, a run of two NaN pulses is left alone
\* next to raw samples that exist between the two pulses
C4_Witness ==
    /\ UpDone
    /\ max_skips = 1
    /\ \E a, b \in 0..(NPulses - 1) :
           /\ KnownNeighbours(a, b)
           /\ b - a - 1 = 2
           /\ ~IsSpan(a, b)
           /\ IsNaN(At(up_out, At(pulseidxx, a) + 1))

\* the raw samples with index in [lo, hi), in order
SamplesIn(lo, hi) ==
    LET idx == SetToAscSeq({ j \in 0..(Len(ds_values) - 1) : lo <= j /\ j < hi })
    IN  [k \in 1..Len(idx) |-> At(ds_values, idx[k])]

AllNaN(seq) == \A k \in 1..Len(seq) : IsNaN(seq[k])

\* C5: downsample returns one value per pulse; for every pulse i but the
\* last, out[i] is reduce over the raw samples in [pulseidxx[i], pulseidxx[i+1]),
\* so every raw sample between the first and the last pulse is in exactly one
\* bin; with nanmean an empty or all-NaN bin yields NaN, and nothing is raised.
C5_OneValuePerPulse ==
    /\ rs_pc # "raised"
    /\ rs_pc = "done" =>
           /\ Len(down_out) = NPulses
           /\ \A k \in 0..(NPulses - 2) :
                  LET bin == SamplesIn(At(pulseidxx, k), At(pulseidxx, k + 1))
                  IN  /\ At(down_out, k) = Cast32(ApplyReduce(reduce, bin))
                      /\ (reduce = "nanmean" /\ AllNaN(bin)) => IsNaN(At(down_out, k))
           /\ \A j \in 0..(Len(ds_values) - 1) :
                  (At(pulseidxx, 0) <= j /\ j < At(pulseidxx, NPulses - 1))
                      => Cardinality({ k \in 0..(NPulses - 2) :
                                           At(pulseidxx, k) <= j /\ j < At(pulseidxx, k + 1) }) = 1

\* the part of C5 that does hold: whenever downsample returns
C5_BinsWhenReturned == rs_pc = "raised" \/ C5_OneValuePerPulse

\* w is an integer nearest to the mean of the inter-pulse gaps
NearestToMeanGap(w) ==
    LET gaps == At(pulseidxx, NPulses - 1) - At(pulseidxx, 0)
    IN  2 * Abs(w * (NPulses - 1) - gaps) <= NPulses - 1

\* C6: for ascending pulseidxx of at least two pulses, the last output is
\* reduce over the raw samples in [pulseidxx[-1], min(len(values),
\* pulseidxx[-1] + w)), w the mean inter-pulse gap rounded to the nearest
\* integer; no index of the bin is past the end of values.
C6_FinalBin ==
    (rs_pc = "done" /\ NPulses >= 2) =>
        LET last == At(pulseidxx, NPulses - 1)
            stop == Min(Len(ds_values), last + interval)
        IN  /\ NearestToMeanGap(interval)
            /\ stop <= Len(ds_values)
            /\ At(down_out, NPulses - 1) = Cast32(ApplyReduce(reduce, SamplesIn(last, stop)))

\* C6 witness: the mean gap is not an integer, the bin is cut at the end of
\* values and still holds a sample
C6_Witness ==
    /\ rs_pc = "done"
    /\ NPulses >= 3
    /\ (At(pulseidxx, NPulses - 1) - At(pulseidxx, 0)) % (NPulses - 1) # 0
    /\ At(pulseidxx, NPulses - 1) + interval > Len(ds_values)
    /\ At(pulseidxx, NPulses - 1) < Len(ds_values)
    /\ ~IsNaN(At(down_out, NPulses - 1))

\* x has no NaN at all
NoGap == \A k \in 0..(NPulses - 1) : ~IsNaN(At(values, k))

\* x has one run of NaN, between two known values, and upsample bridges it
OneBridgedGap ==
    \E a, b \in 0..(NPulses - 1) :
        /\ KnownNeighbours(a, b)
        /\ b - a - 1 >= 1
        /\ IsSpan(a, b)
        /\ \A c \in 0..(NPulses - 1) : IsNaN(At(values, c)) => (a < c /\ c < b)

ImagingChannels == {"B", "V"}

\* the first n entries of arr, for n <= Len(arr)
FirstN(arr, n) == [k \in 1..n |-> arr[k]]

\* C8: validate_timebase_with_imaging raises ValueError exactly when a
\* channel, B or V, has fewer pulses or fewer ticks than observed frames;
\* otherwise the pulse array and the tick array it returns for each channel
\* are the first `frame count` entries of the input arrays, the input arrays
\* themselves when the counts are equal already.
C8_ImagingValidation ==
    [][ tb_pc = "imaging" =>
          LET short(ch) == \/ Len(triggers[ch]) < num_frames'[ch]
                           \/ Len(timebases[ch]) < num_frames'[ch]
          IN  /\ (tb_pc' = "raised") <=> (\E ch \in ImagingChannels : short(ch))
              /\ (tb_pc' = "videos") =>
                     \A ch \in ImagingChannels :
                         /\ triggers'[ch] = FirstN(triggers[ch], num_frames'[ch])
                         /\ timebases'[ch] = FirstN(timebases[ch], num_frames'[ch])
                         /\ Len(triggers[ch]) = num_frames'[ch] => triggers'[ch] = triggers[ch]
                         /\ Len(timebases[ch]) = num_frames'[ch] => timebases'[ch] = timebases[ch]
      ]_vars

\* C8 witness: the validation returned after cutting the pulses of one
\* channel and the ticks of the other, each down to at least one entry
C8_Witness ==
    /\ tb_pc = "videos"
    /\ Len(rawfile.img_acquisition_start_b) > num_frames.B
    /\ Len(rawfile.tick_img_v) > num_frames.V
    /\ num_frames.B >= 1
    /\ num_frames.V >= 1
    /\ Len(triggers.B) = num_frames.B
    /\ Len(timebases.V) = num_frames.V

\* C9: validate_timebase_with_rawdata raises ValueError iff timebases.raw
\* has fewer entries than the observed sample count; otherwise the raw it
\* returns is the first `sample count` entries of the input raw, and the
\* pulse triggers and the videos, B and V timebases are the input ones.
C9_RawdataValidation ==
    [][ tb_pc = "rawdata" =>
          /\ (tb_pc' = "raised") <=> (Len(timebases.raw) < num_samples')
          /\ (tb_pc' = "imaging") =>
                 /\ timebases'.raw = FirstN(timebases.raw, num_samples')
                 /\ Len(timebases'.raw) = num_samples'
                 /\ triggers' = triggers
                 /\ timebases'.videos = timebases.videos
                 /\ timebases'.B = timebases.B
                 /\ timebases'.V = timebases.V
      ]_vars

\* C9 witness: the validation returned a raw cut down to a sample count >= 1
C9_Witness ==
    /\ tb_pc = "imaging"
    /\ num_samples >= 1
    /\ Len(rawfile.tick_raw) > num_samples
    /\ Len(timebases.raw) = num_samples

Channels == {"videos", "B", "V"}

\* C10: once the validation sequence of load_timebases has succeeded, for
\* every channel among videos, B and V that is present (not None),
\* PulseTriggers.ch and Timebases.ch have the same number of entries.
C10_SameSizePerChannel ==
    tb_pc = "done" =>
        \A ch \in Channels :
            (~IsNone(triggers[ch]) /\ ~IsNone(timebases[ch]))
                => Len(triggers[ch]) = Len(timebases[ch])

\* the part of C10 that holds: the imaging channels
C10_ImagingChannelsSameSize ==
    tb_pc = "done" =>
        \A ch \in ImagingChannels : Len(triggers[ch]) = Len(timebases[ch])

\* the videos fields as read_timebases returned them
VideosAsRead(obj) ==
    IF IsNone(rawfile.vid_acquisition_start) THEN None
    ELSE IF obj = "triggers" THEN ToPythonIndices(rawfile.vid_acquisition_start)
    ELSE rawfile.tick_vid

\* C11: once the validation sequence of load_timebases has succeeded, every
\* pulse index of PulseTriggers (videos, B, V) is a valid zero-based index
\* into the validated Timebases.raw: 0 <= index < raw.size.
C11_PulsesIndexRaw ==
    tb_pc = "done" =>
        \A ch \in Channels :
            ~IsNone(triggers[ch]) =>
                \A k \in 1..Len(triggers[ch]) :
                    0 <= triggers[ch][k] /\ triggers[ch][k] < Len(timebases.raw)

\* C12: validate_timebase_with_videos returns PulseTriggers.videos and
\* Timebases.videos both None when the session has no behavior video, and
\* both as read when it has.
C12_VideosNulledWithoutVideos ==
    tb_pc = "done" =>
        /\ ~behavior_videos => (IsNone(triggers.videos) /\ IsNone(timebases.videos))
        /\ behavior_videos => /\ triggers.videos = VideosAsRead("triggers")
                              /\ timebases.videos = VideosAsRead("timebases")

\* the part of C12 that holds: the videos fields are always the ones read
C12_VideosAlwaysAsRead ==
    tb_pc = "done" =>
        /\ triggers.videos = VideosAsRead("triggers")
        /\ timebases.videos = VideosAsRead("timebases")

\* daqindex_to_pulseindex is about to return out
D2PReturning ==
    \/ al_pc = "d2p" /\ i = Len(daqidxx)
    \/ al_pc = "d2p_return"

\* C13: daqindex_to_pulseindex yields -1 at every position where daqidxx
\* holds -1, wherever the entry stands in the array.
C13_MissingPassedThrough ==
    D2PReturning =>
        \A k \in 0..(Len(daqidxx) - 1) : At(daqidxx, k) = -1 => At(out, k) = -1

\* the part of C13 that holds: the entries the loop reached before it broke
C13_MissingPassedThroughBeforeBreak ==
    D2PReturning =>
        \A k \in 0..(i - 1) : At(daqidxx, k) = -1 => At(out, k) = -1

\* the samples within tolerance of pulse k
WithinTol(k) ==
    { j \in 0..(Len(daq_t) - 1) : Abs(At(pulse_t, k) - At(daq_t, j)) <= tol }

\* C14: timebase_to_daqindices yields, for every pulse_t[i], the index of
\* the first sample of daq_t within tol of it when there is one, and -1
\* exactly when there is none.
C14_FirstSampleWithinTol ==
    al_pc = "t2d_done" =>
        \A k \in 0..(Len(pulse_t) - 1) :
            IF WithinTol(k) = {} THEN At(out, k) = -1
            ELSE At(out, k) = MinOf(WithinTol(k))

\* the part of C14 that holds: up to the first pulse without a sample within
\* tol the output is the first such sample, and from that pulse on it is -1
C14_UntilFirstUnmatched ==
    al_pc = "t2d_done" =>
        \A k \in 0..(Len(pulse_t) - 1) :
            IF \E u \in 0..k : WithinTol(u) = {} THEN At(out, k) = -1
            ELSE At(out, k) = MinOf(WithinTol(k))

\* align_trials_to_pulses was called
AlignCalled == al_pc \in {"begin", "columns", "d2p", "d2p_return", "done", "raised"}

RequiredMessage(c) ==
    IF c = "start" THEN "trials do not contain the 'start' column"
    ELSE "trials do not contain the 'end' column"

\* C15: align_trials_to_pulses given a trial table without the 'start' or the
\* 'end' column raises ValueError whose message names a missing column, and
\* raises before any column is converted.
C15_MissingColumnValueError ==
    (AlignCalled /\ {"start", "end"} \ DOMAIN trials # {}) =>
        /\ al_pc \in {"begin", "raised"}
        /\ DOMAIN aligned = {}
        /\ al_pc = "raised" =>
               \E c \in {"start", "end"} \ DOMAIN trials : al_err = ValueError(RequiredMessage(c))

\* the part of C15 that holds: column settings without 'start' or 'end'
C15_MissingSettingValueError ==
    (AlignCalled /\ {"start", "end"} \ ColNames # {}) =>
        /\ al_pc \in {"begin", "raised"}
        /\ DOMAIN aligned = {}
        /\ al_pc = "raised" =>
               \E c \in {"start", "end"} \ ColNames : al_err = ValueError(RequiredMessage(c))

\* ---- validate_keypoint
NFrames == Len(dlcdata.x)

\* C16: validate_keypoint returns NaN for both x and y of every frame whose
\* likelihood is below threshold, for every setting of alpha.
C16_LowLikelihoodNulled ==
    kp_pc = "done" =>
        \A k \in 1..NFrames :
            dlcdata.likelihood[k] < threshold => (IsNaN(kp_x[k]) /\ IsNaN(kp_y[k]))

\* C16 witness: with alpha enabled, a frame of low likelihood whose
\* coordinates were numbers comes back nulled next to a frame that is kept
C16_Witness ==
    /\ kp_pc = "done"
    /\ ~IsNaN(alpha)
    /\ \E k \in 1..NFrames :
           /\ dlcdata.likelihood[k] < threshold
           /\ ~IsNaN(dlcdata.x[k])
           /\ ~IsNaN(dlcdata.y[k])
           /\ IsNaN(kp_x[k])
           /\ IsNaN(kp_y[k])
    /\ \E k \in 1..NFrames : ~IsNaN(kp_x[k]) /\ ~IsNaN(kp_y[k])

\* C17: with alpha disabled (NaN), validate_keypoint returns the input x and
\* y of every frame whose likelihood is at least threshold, whatever the
\* coordinates are.
C17_DisabledAlphaKeepsLikelyFrames ==
    (kp_pc = "done" /\ IsNaN(alpha)) =>
        \A k \in 1..NFrames :
            dlcdata.likelihood[k] >= threshold
                => (kp_x[k] = dlcdata.x[k] /\ kp_y[k] = dlcdata.y[k])

\* the part of C17 that holds: frames with neither coordinate equal to 0.0
C17_DisabledAlphaKeepsNonZeroFrames ==
    (kp_pc = "done" /\ IsNaN(alpha)) =>
        \A k \in 1..NFrames :
            (dlcdata.likelihood[k] >= threshold /\ dlcdata.x[k] # 0 /\ dlcdata.y[k] # 0)
                => (kp_x[k] = dlcdata.x[k] /\ kp_y[k] = dlcdata.y[k])

NothingMutated ==
    /\ \A n \in 1..Len(instances) : Len(instances') >= n /\ instances'[n] = instances[n]
    /\ kp_pc # "idle" => dlcdata' = dlcdata

\* the step is the return of one of the three validations
ValidationReturns == tb_pc \in {"rawdata", "imaging", "videos"} /\ tb_pc' # "raised"

\* C19: the validations and replace leave every field of the PulseTriggers
\* and Timebases instances passed to them unchanged and return new
\* instances; validate_keypoint leaves the columns of the input table
\* unchanged.
C19_ReturnsNewInstances ==
    [][ /\ NothingMutated
        /\ ValidationReturns =>
               \A v \in {"triggers", "timebases"} : refs'[v] > Len(instances)
      ]_vars

\* C19 (amended): no instance passed to a validation or to replace has a
\* field changed, and validate_keypoint leaves the columns of the table
\* unchanged; what a validation returns is the input instance itself when it
\* calls no replace, and a new instance otherwise.
C19_NoInputMutated ==
    [][ /\ NothingMutated
        /\ ValidationReturns =>
               /\ \A v \in {"triggers", "timebases"} :
                      refs'[v] = refs[v] \/ refs'[v] > Len(instances)
               /\ instances'[refs'.triggers] = triggers'
               /\ instances'[refs'.timebases] = timebases'
               /\ triggers' # triggers => refs'.triggers > Len(instances)
               /\ timebases' # timebases => refs'.timebases > Len(instances)
      ]_vars

\* C19 witness: the raw-data validation returned a new Timebases with a
\* shorter raw while the instance passed to it still holds the raw as read
C19_Witness ==
    /\ tb_pc = "imaging"
    /\ refs.timebases = 3
    /\ instances[2].raw = rawfile.tick_raw
    /\ Len(instances[3].raw) < Len(instances[2].raw)
    /\ timebases = instances[3]


\* ----------------------------------------------------------------------
\* the entries of a Python list
Entries(list) == { list[k] : k \in 1..Len(list) }

\* the sessions (by position) whose processing raises
Failing == { k \in 0..(Len(sessions) - 1) :
                 At(sessions, k).rawdata /\ Process(At(sessions, k)) # "" }

\* C20: run_batch isolates session failures: when processing one session
\* raises an error of any kind, run_batch does not end with the exception,
\* the session is recorded in sessions_with_problem once the loop has passed
\* it, and once run_batch is over every session of the iteration has been
\* processed.
C20_FailuresIsolated ==
    /\ batch_pc # "raised"
    /\ \A k \in Failing :
           k < sess => \E e \in Entries(sessions_with_problem) : e[1] = k
    /\ batch_pc # "loop" =>
           Entries(sessions_processed) = 0..(Len(sessions) - 1)

\* C20 as the code has it: a failure that is no OSError (a ValueError, a
\* RuntimeError, a KeyboardInterrupt) is recorded in sessions_with_problem
\* with its exception and the loop goes on, so that a run_batch that returns
\* has processed every session in order; an OSError (the FileNotFoundError of
\* a missing mesoscaler file included) is raised again: run_batch ends with
\* it at that session, which is recorded in sessions_processed only, and no
\* later session is processed.
C20_FailuresIsolatedButOSError ==
    /\ \A k \in Failing :
           k < sess =>
               /\ At(sessions, k).mesofile
               /\ At(sessions, k).fault \in {"ValueError", "RuntimeError", "KeyboardInterrupt"}
               /\ <<k, At(sessions, k).fault>> \in Entries(sessions_with_problem)
    /\ batch_pc = "returned" =>
           sessions_processed = [k \in 1..Len(sessions) |-> k - 1]
    /\ batch_pc = "raised" =>
           /\ At(sessions, sess).rawdata
           /\ \/ ~At(sessions, sess).mesofile /\ batch_err = "FileNotFoundError"
              \/ At(sessions, sess).fault = "OSError" /\ batch_err = "OSError"
           /\ sessions_processed = [k \in 1..(sess + 1) |-> k - 1]
           /\ \A e \in Entries(sessions_with_problem) : e[1] # sess

\* a first session failed with something else than an OSError, it is in
\* sessions_with_problem, and the session after it was processed without a
\* problem before run_batch returned
C20_Witness ==
    /\ batch_pc = "returned"
    /\ Len(sessions) >= 2
    /\ 0 \in Failing
    /\ sessions_with_problem = << <<0, At(sessions, 0).fault>> >>
    /\ At(sessions, 1).rawdata
    /\ 1 \in Entries(sessions_processed)


\* ----------------------------------------------------------------------
\* C21: absent per-view model results are not fatal: whatever subset of the
\* views body, face and eye lacks DeepLabCut results, all three included,
\* and whether or not the session has behavior videos, process never ends
\* with an exception that comes from the absence: not with the RuntimeError
\* "DLC results not found", and not with an AttributeError for the pupil
\* path that is None because the eye results are absent.
C21_AbsentResultsNotFatal ==
    pr_pc = "raised" /\ paths.deeplabcut # ViewSet =>
        /\ pr_err # RuntimeError("DLC results not found")
        /\ "eye" \notin paths.deeplabcut => pr_err.exc # "AttributeError"

\* what the code does: the tracking step raises "DLC results not found"
\* exactly when no view has results and the session has videos, and an
\* AttributeError exactly when some view has results and the pupil path is
\* None, which it always is without eye results
C21_AbsenceFatalCases ==
    pr_pc = "raised" =>
        /\ pr_err = RuntimeError("DLC results not found") =>
               paths.deeplabcut = {} /\ paths.any_videos
        /\ pr_err.exc = "AttributeError" =>
               paths.deeplabcut # {} /\ paths.pupilfitting = "None"
        /\ pr_err = RuntimeError("untolerable mismatch") =>
               \/ \E view \in ViewSet : view \in paths.videos /\ view \in paths.deeplabcut
               \/ paths.pupilfitting = "exists"

\* ----------------------------------------------------------------------
\* load_pupil_fitting returns None and add_tracking_impl goes on without
\* pupil data: nothing is added, the step ends without an exception
NoPupilData ==
    /\ pr_pc' # "raised"
    /\ pr_err' = NoError
    /\ env' = [env EXCEPT !.has_behavior_flag = TRUE]
    /\ pr_trace' = pr_trace

\* C22: an absent pupil-fitting file is not fatal: whenever the pupil-fitting
\* path is None or names a file that does not exist, load_pupil_fitting
\* returns None without raising and the tracking step ends with the pose
\* estimations registered and no pupil data.
C22_AbsentPupilNotFatal ==
    [][ pr_pc = "load_pupil_fitting" /\ paths.pupilfitting \in {"None", "missing"}
            => NoPupilData ]_vars

\* what the code does: it holds for the path to a file that does not exist;
\* the path None ends the step with an AttributeError
C22_MissingPupilFileNotFatal ==
    [][ /\ pr_pc = "load_pupil_fitting" /\ paths.pupilfitting = "missing"
            => NoPupilData
        /\ pr_pc = "load_pupil_fitting" /\ paths.pupilfitting = "None"
            => pr_pc' = "raised" /\ pr_err'.exc = "AttributeError" ]_vars

\* ----------------------------------------------------------------------
\* what process has done so far, as a set
Done == { pr_trace[k] : k \in 1..Len(pr_trace) }

\* process is past its two early returns
PastCheck == pr_pc \notin {"setup_path_settings", "paths"}

\* C23: process never overwrites an existing output unless told to: when
\* the destination NWB file exists and overwrite is false, process returns
\* None at the check and has read no raw data, copied no video, written no
\* imaging frames and no NWB file (it has done nothing at all); with
\* overwrite true the existing file does not stop it: it goes on into the
\* pipeline, and a run that returns has loaded the timebases, run the steps
\* and written the NWB file as its last act, returning the NWB file.
C23_NoOverwriteUnlessTold ==
    ~paths.none /\ paths.nwb_exists /\ PastCheck =>
        IF ~opts.overwrite
        THEN /\ pr_pc = "returned"
             /\ pr_ret = "None"
             /\ pr_err = NoError
             /\ pr_trace = <<>>
        ELSE /\ pr_pc = "returned" =>
                 /\ pr_ret = "nwbfile"
                 /\ {<<"read", "rawdata">>, <<"create", "nwbfile">>,
                     <<"load", "timebases">>, <<"add", "imaging">>} \subseteq Done
                 /\ pr_trace[Len(pr_trace)] = <<"file", "nwb">>
             /\ pr_pc = "raised" => pr_err # NoError

\* the file was there, overwrite was false, and process has returned None
C23_Witness ==
    /\ pr_pc = "returned"
    /\ pr_ret = "None"
    /\ ~paths.none
    /\ paths.nwb_exists
    /\ ~opts.overwrite
    /\ pr_trace = <<>>

\* ----------------------------------------------------------------------
\* a pass of the while loop of upsample
UpsamplePass == rs_pc = "upsample" /\ rs_pc' = "upsample"

\* a pass of the for loop of timebase_to_daqindices
T2DPass == al_pc = "t2d"

\* a pass of the for loop of daqindex_to_pulseindex
D2PPass == al_pc = "d2p" /\ al_pc' \in {"d2p", "d2p_return"}

\* C24: the scans are single forward passes that terminate: every pass of
\* the while loop of upsample moves the pulse offset forward by at least
\* one and never past pulseidxx.size - 1, there are at most pulseidxx.size
\* passes, and the pulses a pass interpolates between are the one at the
\* offset and the one the offset is moved to, never one before the offset;
\* in timebase_to_daqindices and in daqindex_to_pulseindex the scan offset
\* never decreases from one entry to the next.
C24_ScansGoForward ==
    [][ /\ UpsamplePass =>
               /\ up_offset < up_offset'
               /\ up_offset' <= offsetceil
               /\ up_iter' <= Len(pulseidxx)
               /\ spans' # spans => spans' = Append(spans, <<up_offset, up_offset'>>)
        /\ T2DPass => offset <= offset'
        /\ D2PPass => offset <= offset'
      ]_vars

\* upsample has returned after a pass that bridged NaN pulses, a pass that
\* skipped a NaN pulse and a pass that found nothing to bridge to
C24_Witness ==
    /\ rs_pc = "downsample"
    /\ up_iter >= 2
    /\ up_offset = offsetceil
    /\ \E k \in 1..Len(spans) : spans[k][2] > spans[k][1] + 1
    /\ IsNaN(values[Len(values)])

\* ----------------------------------------------------------------------
\* the k-th thing process did comes after it did event
Before(event, k) == \E j \in 1..(k - 1) : pr_trace[j] = event

C26_SeriesRowsAgree ==
    pt_pc = "yielded" =>
        /\ pt_series.data = pt_series.timestamps
        /\ pt_series.data = pt_series.confidence

\* what the code does: on the video timeline the three agree; on the
\* imaging timeline data and timestamps have one row per imaging frame and
\* confidence still has one per video frame
C26_SeriesRowsPerTimeline ==
    pt_pc = "yielded" =>
        IF pt_args.downsample
        THEN /\ pt_series.data = pt_args.dFF
             /\ pt_series.timestamps = pt_args.dFF
             /\ pt_series.confidence = Min(pt_args.num_frames, pt_args.num_pulses)
        ELSE /\ pt_series.data = pt_series.timestamps
             /\ pt_series.data = pt_series.confidence
             /\ pt_series.data = Min(pt_args.num_frames, pt_args.num_pulses)


\* the pass of a view is past validate_index_ranges
Validated == pt_pc # "validate_index_ranges"

Mismatch ==
    IF pt_args.num_frames >= pt_args.num_pulses
    THEN pt_args.num_frames - pt_args.num_pulses
    ELSE pt_args.num_pulses - pt_args.num_frames

\* C27: validate_index_ranges raises RuntimeError if and only if
\* |num_frames - num_pulses| > mismatch_tolerance; otherwise the pulse range
\* applied to the pulses and the frame range applied to the frames select the
\* same number of entries, min(num_frames, num_pulses), both from index 0;
\* with a tolerance of 0 every mismatch raises.
C27_IndexRanges ==
    Validated =>
        /\ (pt_err = RuntimeError("untolerable mismatch"))
               <=> (Mismatch > pt_args.mismatch_tolerance)
        /\ (pt_args.mismatch_tolerance = 0 /\ Mismatch # 0)
               => pt_err = RuntimeError("untolerable mismatch")
        /\ (Mismatch <= pt_args.mismatch_tolerance) =>
               /\ pt_ranges.pulserange.start = 0
               /\ pt_ranges.framerange.start = 0
               /\ Selected(pt_ranges.pulserange, pt_args.num_pulses)
                      = Min(pt_args.num_frames, pt_args.num_pulses)
               /\ Selected(pt_ranges.framerange, pt_args.num_frames)
                      = Min(pt_args.num_frames, pt_args.num_pulses)
               /\ (pt_args.num_frames > pt_args.num_pulses) =>
                      /\ pt_ranges.pulserange = SliceAll
                      /\ pt_ranges.framerange = SliceTo(pt_args.num_pulses)
               /\ (pt_args.num_frames < pt_args.num_pulses) =>
                      /\ pt_ranges.pulserange = SliceTo(pt_args.num_frames)
                      /\ pt_ranges.framerange = SliceAll

\* a mismatch as large as the tolerance has been accepted and the longer
\* side clipped
C27_Witness ==
    /\ pt_pc = "read_hdf"
    /\ pt_args.mismatch_tolerance > 0
    /\ pt_args.num_frames - pt_args.num_pulses = pt_args.mismatch_tolerance
    /\ pt_ranges.framerange = SliceTo(pt_args.num_pulses)

\* the step is a call into the logging module
LoggingCall == lg_calls' = lg_calls + 1

\* C28: log file output is set at most once per process. get_logger returns
\* the same logger object whenever it returns; a request for file output
\* made while no file handler is installed (get_logger(file_output=True), by
\* find_missing or run_batch too, or set_file_output) installs one on the
\* logger, provided the log file can be opened; a request made once a
\* handler is installed raises RuntimeError and leaves the handler, its
\* place on the logger and the log file path unchanged.
C28_FileOutputOnce ==
    [][LoggingCall =>
        /\ (lg_call'.op # "set_file_output" /\ lg_err' = NoError)
               => /\ lg_ret' = "bdbc"
                  /\ lg_ret' = APP_LOGGER'
        /\ (APP_LOGGER # "None") => APP_LOGGER' = APP_LOGGER
        /\ (lg_call'.file_output /\ FILE_OUTPUT = NoHandler /\ lg_call'.opens)
               => /\ lg_err' = NoError
                  /\ FILE_OUTPUT' = FileHandler(lg_calls')
                  /\ FILE_OUTPUT' \in lg_handlers'
                  /\ FILE_OUTPUT_PATH' # NoPath
        /\ (lg_call'.file_output /\ FILE_OUTPUT # NoHandler)
               => /\ lg_err' = RuntimeError("log file output has been already set")
                  /\ FILE_OUTPUT' = FILE_OUTPUT
                  /\ FILE_OUTPUT_PATH' = FILE_OUTPUT_PATH
                  /\ lg_handlers' = lg_handlers
        /\ (FILE_OUTPUT # NoHandler)
               => /\ FILE_OUTPUT' = FILE_OUTPUT
                  /\ FILE_OUTPUT_PATH' = FILE_OUTPUT_PATH
                  /\ FILE_OUTPUT \in lg_handlers'
    ]_vars

\* find_missing installed the log file and run_batch, called afterwards,
\* was refused
C28_Witness ==
    /\ lg_call.op = "run_batch"
    /\ lg_err = RuntimeError("log file output has been already set")
    /\ FILE_OUTPUT = FileHandler(1)
    /\ FILE_OUTPUT_PATH = [name |-> "batch_", stamp |-> 1]
    /\ FILE_OUTPUT \in lg_handlers

\* extract_trials is past its calls of extract_blocks
BlocksExtracted == tx_pc \notin {"idle", "extract_blocks"}

\* blocks are consecutive ranges [start, stop) that cover [0, flags.size),
\* each of one value, neighbours of different values
Partitions(blocks, flags) ==
    /\ Len(blocks) >= 1
    /\ blocks[1].start = 0
    /\ blocks[Len(blocks)].stop = Len(flags)
    /\ \A k \in 1..Len(blocks) :
           /\ blocks[k].start < blocks[k].stop
           /\ \A j \in blocks[k].start..(blocks[k].stop - 1) :
                  At(flags, j) = blocks[k].value
    /\ \A k \in 1..(Len(blocks) - 1) :
           /\ blocks[k].stop = blocks[k + 1].start
           /\ blocks[k].value # blocks[k + 1].value

\* the flags are not all equal
Changing(flags) == \E j, k \in 1..Len(flags) : flags[j] # flags[k]

\* C29: for every non-empty flags array, one whose flags are all equal
\* included, extract_blocks returns blocks whose ranges [start, stop) are
\* consecutive and cover [0, flags.size) exactly, each block of a single
\* flag value and neighbouring blocks of different values.
C29_BlocksPartition ==
    BlocksExtracted => Partitions(tx_task_state, tx_daq.Task_state)

\* what the code does: the same for every flags array that holds at least
\* two different values; extract_blocks raises on the others
C29_BlocksPartitionWhenChanging ==
    BlocksExtracted =>
        IF Changing(tx_daq.Task_state)
        THEN Partitions(tx_task_state, tx_daq.Task_state)
        ELSE /\ tx_pc = "raised"
             /\ tx_err = UnboundLocalError("stop")

\* [a, b) is a block of the task state: a maximal run of one value
IsBlock(state, a, b) ==
    /\ 0 <= a /\ a < b /\ b <= Len(state)
    /\ \A j \in a..(b - 1) : At(state, j) = At(state, a)
    /\ a = 0 \/ At(state, a - 1) # At(state, a)
    /\ b = Len(state) \/ At(state, b) # At(state, a)

\* every WAITING block that is followed by a block is followed by a CUED one
WaitingThenCued(state) ==
    \A a \in 0..Len(state), b \in 0..Len(state) :
        (IsBlock(state, a, b) /\ At(state, a) = WAITING /\ b < Len(state))
            => At(state, b) = CUED

\* the onsets of the supra-threshold lever responses
Onsets(over) ==
    {r \in 0..(Len(over) - 1) :
        /\ At(over, r) > 0
        /\ r = 0 \/ At(over, r - 1) <= 0}

\* the trials the task state and the lever define
ExpectedTrials(daq) ==
    LET state == daq.Task_state
    IN  { [start |-> a, end |-> b,
           lever |-> IF Onsets(daq.Over_thr) \cap a..(b - 1) = {}
                     THEN -1
                     ELSE MinOf(Onsets(daq.Over_thr) \cap a..(b - 1)),
           reward |-> At(state, b) = REWARDED] :
          <<a, b>> \in { w \in (0..Len(state)) \X (0..Len(state)) :
                            /\ IsBlock(state, w[1], w[2])
                            /\ At(state, w[1]) = CUED
                            /\ w[1] > 0
                            /\ At(state, w[1] - 1) = WAITING
                            /\ w[2] < Len(state) } }

\* the trials returned are the expected ones, ascending and apart
TrialsAsExpected ==
    /\ {tx_trials[k] : k \in 1..Len(tx_trials)} = ExpectedTrials(tx_daq)
    /\ \A k \in 1..(Len(tx_trials) - 1) :
           tx_trials[k].end <= tx_trials[k + 1].start

\* C30: for a task state over WAITING, CUED, REWARDED in which every WAITING
\* block is followed by a CUED block, extract_trials does not raise and
\* returns one trial for each CUED block that directly follows a WAITING
\* block and is followed by at least one more block, in ascending order,
\* with [start, end) the block's bounds, reward true exactly when the next
\* block is REWARDED, and lever -1 or the first onset in [start, end).
C30_TrialsFromCuedBlocks ==
    (tx_pc # "idle" /\ WaitingThenCued(tx_daq.Task_state)) =>
        /\ tx_pc # "raised"
        /\ tx_pc = "returned" => TrialsAsExpected

\* what the code does: the same whenever both the task state and the lever
\* signal change at least once, so that neither extract_blocks call raises
C30_TrialsUnlessBlocksFail ==
    (tx_pc # "idle" /\ WaitingThenCued(tx_daq.Task_state)) =>
        IF Changing(tx_daq.Task_state) /\ Changing(tx_daq.Over_thr)
        THEN /\ tx_pc # "raised"
             /\ tx_pc = "returned" => TrialsAsExpected
        ELSE BlocksExtracted =>
                 /\ tx_pc = "raised"
                 /\ tx_err = UnboundLocalError("stop")

====
